---- MODULE Spec2Model ----
(***************************************************************************)
(* A model of the query execution pipeline of mysql-emulator: the INSERT   *)
(* processor (src/src/query-runner/insert.processor.ts) and the six-stage  *)
(* SELECT processor (src/src/processor/select.processor.ts).               *)
(*                                                                         *)
(* Row keys.  The code builds keys as strings: `T::c` for a qualified      *)
(* column, `::a` for a SELECT alias, a bare `c` in stored and output rows. *)
(* Here a key is a tuple: <<T, c>>, <<"", a>> and <<c>>, so that the       *)
(* qualifier and the column of a key can be read back.                     *)
(***************************************************************************)
EXTENDS Integers, Sequences, FiniteSets, TLC

\* ---------------------------------------------------------------- bounds
\* VALUES rows of one INSERT statement
MaxValues == 2
\* rows the tables may hold, all together, in the INSERT machine
MaxTableRows == 2
\* largest value the auto-increment counter may reach
MaxAutoInc == 3
\* rows of users when a SELECT over that table alone starts
MaxSelectRows == 3
\* rows of users, and of posts, when a SELECT that joins or groups starts
MaxJoinRows == 2
\* largest LIMIT and largest OFFSET of a SELECT
MaxLimit == 2

\* ---------------------------------------------------------------- values
Null == [t |-> "null", n |-> 0, s |-> ""]
IntV(i) == [t |-> "int", n |-> i, s |-> ""]
StrV(x) == [t |-> "str", n |-> 0, s |-> x]

\* ------------------------------------------------------------ expressions
NoExpr == [type |-> "none"]
NumberLit(i) == [type |-> "number", value |-> i]
StringLit(x) == [type |-> "string", value |-> x]
NullLit == [type |-> "null"]
Default == [type |-> "default"]

\* ----------------------------------------------------------------- errors
NoError == [kind |-> "none", code |-> "", message |-> ""]
ProcessorError(m) == [kind |-> "ProcessorError", code |-> "", message |-> m]
ServerError(c, m) == [kind |-> "ServerError", code |-> c, message |-> m]

\* ----------------------------------------------------------------- schema
\* users(id INT UNSIGNED NOT NULL AUTO_INCREMENT, name VARCHAR(1) NULL)
\* posts(user_id INT NOT NULL, body VARCHAR(1) NULL DEFAULT 'x')
\* `hi` is the top of an integer column's range, or a varchar's length.
Tables == {"users", "posts"}

getColumns(table) ==
  IF table = "users"
  THEN << [name |-> "id", kind |-> "int", nullable |-> FALSE, autoInc |-> TRUE,
           default |-> NoExpr, lo |-> 0, hi |-> 4],
          [name |-> "name", kind |-> "varchar", nullable |-> TRUE, autoInc |-> FALSE,
           default |-> NoExpr, lo |-> 0, hi |-> 1] >>
  ELSE << [name |-> "user_id", kind |-> "int", nullable |-> FALSE, autoInc |-> FALSE,
           default |-> NoExpr, lo |-> 0, hi |-> 4],
          [name |-> "body", kind |-> "varchar", nullable |-> TRUE, autoInc |-> FALSE,
           default |-> StringLit("x"), lo |-> 0, hi |-> 1] >>

columnNames(table) == [i \in 1..Len(getColumns(table)) |-> getColumns(table)[i].name]

hasAutoIncrementColumn(table) ==
  \E i \in 1..Len(getColumns(table)) : getColumns(table)[i].autoInc

\* IntegerColumn.getNextAutoIncrementValue: advances the counter and returns it
getNextAutoIncrementValue(cursor) == cursor + 1

\* Column.cast: integers in range pass; a non-numeric string is an incorrect
\* integer; a varchar longer than its width is out of range; null passes.
cast(c, v) ==
  IF v = Null THEN [err |-> NoError, value |-> Null]
  ELSE IF c.kind = "int"
  THEN IF v.t = "str"
       THEN [err |-> ServerError("INCORRECT_INTEGER_VALUE",
                      "Incorrect integer value: '" \o v.s \o "' for column '" \o c.name \o "'"),
             value |-> Null]
       ELSE IF v.n < c.lo \/ v.n > c.hi
            THEN [err |-> ServerError("OUT_OF_RANGE_VALUE",
                           "Out of range value for column '" \o c.name \o "'"),
                  value |-> Null]
            ELSE [err |-> NoError, value |-> v]
  ELSE LET s == IF v.t = "int" THEN ToString(v.n) ELSE v.s
       IN  IF Len(s) > c.hi
           THEN [err |-> ServerError("OUT_OF_RANGE_VALUE",
                          "Data too long for column '" \o c.name \o "'"),
                 value |-> Null]
           ELSE [err |-> NoError, value |-> StrV(s)]

\* Evaluator.evaluateExpression on the literal forms an INSERT value can take
evaluateLiteral(e) ==
  IF e.type = "number" THEN IntV(e.value)
  ELSE IF e.type = "string" THEN StrV(e.value)
  ELSE Null

\* ----------------------------------------------------------- INSERT state
VARIABLES
  tables,     \* table name -> sequence of stored rows, in insertion order
  autoInc,    \* table name -> counter of its auto-increment column
  lastQuery,  \* the INSERT statement last processed
  result,     \* what process returned or threw for it
  before      \* the target table's rows and counter when process was entered

insertVars == <<tables, autoInc, lastQuery, result, before>>

\* No statement in progress: the caller has taken the previous result.
NoQuery == [table |-> "", columns |-> <<>>, values |-> <<>>]
NoResult == [state |-> "idle"]

\* ------------------------------------------------------- InsertProcessor
\* getColumnDefinition: the definition of a named column, or the error thrown
getColumnDefinition(table, column) ==
  LET cs == getColumns(table)
  IN  IF \E i \in 1..Len(cs) : cs[i].name = column
      THEN [err |-> NoError, c |-> cs[CHOOSE i \in 1..Len(cs) : cs[i].name = column]]
      ELSE [err |-> ProcessorError("Unknown column '" \o column \o "' in 'field list'"),
            c |-> NoExpr]

\* evaluateDefaultValue: the value, and the counter after the call
evaluateDefaultValue(c, cursor) ==
  IF c.kind = "int" /\ c.autoInc
  THEN [value |-> IntV(getNextAutoIncrementValue(cursor)),
        cursor |-> getNextAutoIncrementValue(cursor)]
  ELSE IF c.default # NoExpr
       THEN [value |-> evaluateLiteral(c.default), cursor |-> cursor]
       ELSE [value |-> Null, cursor |-> cursor]

\* values.reduce(...) building rawRow, from value index vi on;
\* acc = [row, cursor, err]
RECURSIVE buildRawRow(_, _, _, _, _)
buildRawRow(table, columns, values, vi, acc) ==
  IF vi > Len(values) \/ acc.err # NoError THEN acc
  ELSE LET expression == values[vi]
           key == <<table, columns[vi]>>
       IN  IF expression.type = "default"
           THEN LET d == getColumnDefinition(table, columns[vi])
                IN  IF d.err # NoError
                    THEN [acc EXCEPT !.err = d.err]
                    ELSE LET v == evaluateDefaultValue(d.c, acc.cursor)
                         IN  buildRawRow(table, columns, values, vi + 1,
                               [row |-> (key :> v.value) @@ acc.row,
                                cursor |-> v.cursor, err |-> NoError])
           ELSE buildRawRow(table, columns, values, vi + 1,
                  [acc EXCEPT !.row = (key :> evaluateLiteral(expression)) @@ acc.row])

\* The rewriting of a cast error in the catch block
rewriteCastError_zeroBased(err, rowIndex) ==
  IF err.code \in {"OUT_OF_RANGE_VALUE", "INCORRECT_INTEGER_VALUE"}
  THEN ProcessorError(err.message \o " at row " \o ToString(rowIndex))
  ELSE err

rewriteCastError(err, rowIndex) ==
  IF err.code \in {"OUT_OF_RANGE_VALUE", "INCORRECT_INTEGER_VALUE"}
  THEN ProcessorError(err.message \o " at row " \o ToString(rowIndex + 1))
  ELSE err

\* if (c instanceof IntegerColumn && c.hasAutoIncrement()) insertId = value
captureInsertId_anyInteger(c, value, insertId) ==
  IF c.kind = "int" THEN value ELSE insertId

captureInsertId(c, value, insertId) ==
  IF c.kind = "int" /\ c.autoInc THEN value ELSE insertId

\* columnDefinitions.reduce(...) building the final row, from column ci on;
\* acc = [row, cursor, insertId, err]
RECURSIVE buildRow(_, _, _, _, _)

\* The reducer without the check of null against isNullable()
buildRow_unchecked(table, rawRow, rowIndex, ci, acc) ==
  IF ci > Len(getColumns(table)) \/ acc.err # NoError THEN acc
  ELSE LET c == getColumns(table)[ci]
           key == <<table, c.name>>
           raw == IF key \in DOMAIN rawRow THEN rawRow[key] ELSE Null
           d == IF raw = Null THEN evaluateDefaultValue(c, acc.cursor)
                ELSE [value |-> raw, cursor |-> acc.cursor]
           value == d.value
           insertId == captureInsertId(c, value, acc.insertId)
           casted == cast(c, value)
       IN  IF casted.err # NoError
           THEN [acc EXCEPT !.cursor = d.cursor, !.insertId = insertId,
                            !.err = rewriteCastError(casted.err, rowIndex)]
           ELSE buildRow(table, rawRow, rowIndex, ci + 1,
                  [row |-> (<<c.name>> :> casted.value) @@ acc.row,
                   cursor |-> d.cursor, insertId |-> insertId, err |-> NoError])

buildRow(table, rawRow, rowIndex, ci, acc) ==
  IF ci > Len(getColumns(table)) \/ acc.err # NoError THEN acc
  ELSE LET c == getColumns(table)[ci]
           key == <<table, c.name>>
           raw == IF key \in DOMAIN rawRow THEN rawRow[key] ELSE Null
           d == IF raw = Null THEN evaluateDefaultValue(c, acc.cursor)
                ELSE [value |-> raw, cursor |-> acc.cursor]
           value == d.value
           insertId == captureInsertId(c, value, acc.insertId)
           casted == cast(c, value)
       IN  IF value = Null /\ ~c.nullable
           THEN [acc EXCEPT !.cursor = d.cursor,
                            !.err = ProcessorError("Field '" \o c.name
                                       \o "' doesn't have a default value")]
           ELSE IF casted.err # NoError
           THEN [acc EXCEPT !.cursor = d.cursor, !.insertId = insertId,
                            !.err = rewriteCastError(casted.err, rowIndex)]
           ELSE buildRow(table, rawRow, rowIndex, ci + 1,
                  [row |-> (<<c.name>> :> casted.value) @@ acc.row,
                   cursor |-> d.cursor, insertId |-> insertId, err |-> NoError])

\* query.values.forEach(...), from row index rowIndex (0-based) on;
\* st = [rows, cursor, insertId, affectedRows, err]
RECURSIVE processValues(_, _, _)
processValues(query, rowIndex, st) ==
  IF rowIndex >= Len(query.values) \/ st.err # NoError THEN st
  ELSE LET values == query.values[rowIndex + 1]
           columns == IF query.columns = <<>> THEN columnNames(query.table)
                      ELSE query.columns
           rawRow == buildRawRow(query.table, columns, values, 1,
                       [row |-> <<>>, cursor |-> st.cursor, err |-> NoError])
           row == buildRow(query.table, rawRow.row, rowIndex, 1,
                    [row |-> <<>>, cursor |-> rawRow.cursor,
                     insertId |-> st.insertId, err |-> NoError])
       IN  IF Len(values) # Len(columns)
           THEN [st EXCEPT !.err = ProcessorError(
                   "Column count doesn't match value count at row "
                   \o ToString(rowIndex + 1))]
           ELSE IF rawRow.err # NoError
           THEN [st EXCEPT !.cursor = rawRow.cursor, !.err = rawRow.err]
           ELSE IF row.err # NoError
           THEN [st EXCEPT !.cursor = row.cursor, !.err = row.err]
           ELSE processValues(query, rowIndex + 1,
                  [rows |-> Append(st.rows, row.row), cursor |-> row.cursor,
                   insertId |-> row.insertId,
                   affectedRows |-> st.affectedRows + 1, err |-> NoError])

\* InsertProcessor.process, run on the stored rows and counter of its table
process(query, rows, cursor) ==
  processValues(query, 0,
    [rows |-> rows, cursor |-> cursor, insertId |-> IntV(0),
     affectedRows |-> 0, err |-> NoError])

\* ------------------------------------------------------ INSERT statements
SeqsUpTo(S, n) == UNION {[1..k -> S] : k \in 1..n}

\* VALUES rows for INSERT INTO users VALUES (id, name)
UsersRowPool ==
  { <<Default, StringLit("a")>>, <<NumberLit(3), StringLit("a")>>,
    <<NullLit, NullLit>>, <<NumberLit(9), StringLit("toolong")>>,
    <<StringLit("z"), StringLit("a")>> }

\* VALUES rows for INSERT INTO posts VALUES (user_id, body)
PostsRowPool ==
  { <<NumberLit(1), Default>>, <<NullLit, StringLit("a")>> }

InsertQuery(table, columns, values) ==
  [table |-> table, columns |-> columns, values |-> values]

InsertQueries ==
       {InsertQuery("users", <<>>, v) : v \in SeqsUpTo(UsersRowPool, MaxValues)}
  \cup {InsertQuery("posts", <<>>, v) : v \in SeqsUpTo(PostsRowPool, MaxValues)}
  \cup {InsertQuery("users", <<"name">>, v) :
          v \in SeqsUpTo({<<StringLit("a")>>, <<StringLit("toolong")>>}, MaxValues)}
  \cup {InsertQuery("posts", <<"body">>, <<v>>) : v \in {<<StringLit("a")>>}}
  \cup {InsertQuery("posts", <<"user_id">>, <<v>>) : v \in {<<NumberLit(1)>>, <<Default>>}}
  \cup {InsertQuery("users", <<>>, <<v>>) : v \in {<<StringLit("a")>>}}
  \cup {InsertQuery("users", <<"nope">>, <<v>>) : v \in {<<Default>>, <<NumberLit(1)>>}}
  \cup {InsertQuery("users", <<"id", "id">>, <<v>>) : v \in {<<Default, Default>>}}

\* =================================================================== SELECT
\* ------------------------------------------------------------ expressions
ColumnRef(table, column) == [type |-> "column_ref", table |-> table, column |-> column]
Star(table) == [type |-> "star", table |-> table]
BooleanLit(b) == [type |-> "boolean", value |-> b]
Binary(operator, left, right) ==
  [type |-> "binary_expression", operator |-> operator, left |-> left, right |-> right]
Function(name, args) == [type |-> "function", name |-> name, args |-> args]
Case(when, else) == [type |-> "case", when |-> when, else |-> else]
SubSelect(query) == [type |-> "select", query |-> query]
\* WithAlias<T>: a SELECT column is an expression with its text and its alias
\* ("" for no alias)
WithAlias(e, column, alias) == [column |-> column, alias |-> alias] @@ e
OrderBy(table, column, order) == [order |-> order] @@ ColumnRef(table, column)

EvaluatorException(m) == [kind |-> "EvaluatorException", code |-> "", message |-> m]
ProcessorException(m) == [kind |-> "ProcessorException", code |-> "", message |-> m]
SubQueryException(m) == [kind |-> "SubQueryException", code |-> "", message |-> m]

\* ---------------------------------------------------------------- utils
\* mapKeys(r, key => `${qualifier}::${key}`)
mapKeys(r, qualifier) ==
  [k \in {<<qualifier, k0[1]>> : k0 \in DOMAIN r} |-> r[<<k[2]>>]]

\* String(v), as Array.prototype.join renders an element: null is ''
toStr(v) == IF v.t = "null" THEN "" ELSE IF v.t = "int" THEN ToString(v.n) ELSE v.s

\* values.join(separator)
RECURSIVE join(_, _)
join(values, separator) ==
  IF Len(values) = 0 THEN ""
  ELSE IF Len(values) = 1 THEN toStr(values[1])
  ELSE toStr(values[1]) \o separator \o join(Tail(values), separator)

\* hashCode: the bucket of a string.  Equal strings share a bucket; the
\* buckets of different strings are taken to differ.
hashCode(s) == s

\* The order of strings, for the strings the model stores
StrOrder == <<"", "a", "b", "mydb", "x">>
StrRank(s) == CHOOSE i \in 1..Len(StrOrder) : StrOrder[i] = s

\* a < b in the comparator of sortBy: null first, numbers by value, strings
\* lexicographically
Less(a, b) ==
  IF a.t = "null" THEN b.t # "null"
  ELSE IF b.t = "null" THEN FALSE
  ELSE IF a.t = "int" /\ b.t = "int" THEN a.n < b.n
  ELSE IF a.t = "str" /\ b.t = "str" THEN StrRank(a.s) < StrRank(b.s)
  ELSE a.t = "int"

\* ------------------------------------------------------------- Evaluator
Ok(v) == [err |-> NoError, v |-> v]
Fail(e) == [err |-> e, v |-> Null]

\* JavaScript truthiness of an evaluated value
Truthy(v) == v # Null /\ v # IntV(0) /\ v # StrV("")

\* column_ref: T::c when qualified; else ::c (alias scope), else the single
\* ?::c of the row
evaluateColumnRef(e, row) ==
  LET matches == {k \in DOMAIN row : Len(k) = 2 /\ k[1] # "" /\ k[2] = e.column}
  IN  IF e.table # ""
      THEN IF <<e.table, e.column>> \in DOMAIN row
           THEN Ok(row[<<e.table, e.column>>])
           ELSE Fail(EvaluatorException(
                  "Unknown column '" \o e.table \o "." \o e.column \o "'"))
      ELSE IF <<"", e.column>> \in DOMAIN row THEN Ok(row[<<"", e.column>>])
      ELSE IF matches = {}
      THEN Fail(EvaluatorException("Unknown column '" \o e.column \o "'"))
      ELSE IF Cardinality(matches) = 1 THEN Ok(row[CHOOSE k \in matches : TRUE])
      ELSE Fail(EvaluatorException(
             "Column '" \o e.column \o "' in field list is ambiguous"))

\* star: the row's qualified keys of the requested table (of every table
\* when none is requested), under their unqualified names
evaluateStar(e, row) ==
  LET keys == {k \in DOMAIN row :
                 Len(k) = 2 /\ k[1] # "" /\ (e.table = "" \/ k[1] = e.table)}
  IN  [k \in {<<k0[2]>> : k0 \in keys} |->
         row[CHOOSE k0 \in keys : k0[2] = k[1]]]

\* binary_expression on two evaluated operands
evaluateBinary(operator, l, r) ==
  IF l = Null \/ r = Null THEN Null
  ELSE IF operator = "=" THEN IntV(IF l = r THEN 1 ELSE 0)
  ELSE IF operator = ">" THEN IntV(IF Less(r, l) THEN 1 ELSE 0)
  ELSE IF operator = "<" THEN IntV(IF Less(l, r) THEN 1 ELSE 0)
  ELSE IntV(l.n + r.n)

RECURSIVE evaluateExpression(_, _, _)
RECURSIVE processSelect(_)

\* count(*) is the group size; count(expr) counts the rows of the group on
\* which expr is not null
RECURSIVE countNonNull(_, _)
countNonNull(arg, group) ==
  IF Len(group) = 0 THEN Ok(IntV(0))
  ELSE LET head == evaluateExpression(arg, group[1], <<>>)
           rest == countNonNull(arg, Tail(group))
       IN  IF head.err # NoError THEN head
           ELSE IF rest.err # NoError THEN rest
           ELSE Ok(IntV(rest.v.n + (IF head.v = Null THEN 0 ELSE 1)))

\* case: the value of the first `when` whose condition is truthy
RECURSIVE evaluateCase(_, _, _, _)
evaluateCase(e, i, row, group) ==
  IF i > Len(e.when)
  THEN IF e.else = NoExpr THEN Ok(Null) ELSE evaluateExpression(e.else, row, group)
  ELSE LET cond == evaluateExpression(e.when[i].cond, row, group)
       IN  IF cond.err # NoError THEN cond
           ELSE IF Truthy(cond.v) THEN evaluateExpression(e.when[i].value, row, group)
           ELSE evaluateCase(e, i + 1, row, group)

\* select: the first column of the only row of the sub-query's result
scalarOf(e, sub) ==
  IF sub.err # NoError THEN Fail(sub.err)
  ELSE IF Len(sub.rows) > 1
  THEN Fail(EvaluatorException("Subquery returns more than 1 row"))
  ELSE IF Len(sub.rows) = 0 THEN Ok(Null)
  ELSE Ok(sub.rows[1][<<IF e.query.columns[1].alias # ""
                        THEN e.query.columns[1].alias
                        ELSE e.query.columns[1].column>>])

evaluateSubSelect(e) == scalarOf(e, processSelect(e.query))

evaluateFunction(e, row, group) ==
  IF e.name = "database" THEN Ok(StrV("mydb"))
  ELSE IF e.name = "count"
  THEN IF e.args[1].type = "star" THEN Ok(IntV(Len(group)))
       ELSE countNonNull(e.args[1], group)
  ELSE Fail(EvaluatorException("Function " \o e.name \o " is not implemented"))

evaluateExpression(e, row, group) ==
  IF e.type = "number" THEN Ok(IntV(e.value))
  ELSE IF e.type = "string" THEN Ok(StrV(e.value))
  ELSE IF e.type = "boolean" THEN Ok(IntV(IF e.value THEN 1 ELSE 0))
  ELSE IF e.type = "null" THEN Ok(Null)
  ELSE IF e.type = "column_ref" THEN evaluateColumnRef(e, row)
  ELSE IF e.type = "binary_expression"
  THEN LET l == evaluateExpression(e.left, row, group)
           r == evaluateExpression(e.right, row, group)
       IN  IF l.err # NoError THEN l
           ELSE IF r.err # NoError THEN r
           ELSE Ok(evaluateBinary(e.operator, l.v, r.v))
  ELSE IF e.type = "function" THEN evaluateFunction(e, row, group)
  ELSE IF e.type = "case" THEN evaluateCase(e, 1, row, group)
  ELSE evaluateSubSelect(e)

\* ------------------------------------------------------- SelectProcessor
\* A processor: this.rows, this.groupedRows (a Map in insertion order, here a
\* sequence of [hash, rows]), this.columns, and the error thrown, if any.
\* `shared` says that the single group of an aggregate without GROUP BY is
\* the very array this.rows refers to.  `storage` names the table whose row
\* array this.rows refers to, "" when this.rows is an array of the
\* processor's own: what is done to the array in place (sort, length) is done
\* to that table.
NewProcessor ==
  [rows |-> <<>>, groupedRows |-> <<>>, columns |-> <<>>, shared |-> FALSE,
   storage |-> "", err |-> NoError]

Throw(p, e) == [p EXCEPT !.err = e]

\* catch (err) { if (err instanceof EvaluatorException) throw new
\* ProcessorException(`${err.message} in '<clause>'`); throw err; }
tag_always(err, clause) ==
  ProcessorException(err.message \o " in '" \o clause \o "'")

tag(err, clause) ==
  IF err.kind = "EvaluatorException"
  THEN ProcessorException(err.message \o " in '" \o clause \o "'")
  ELSE err

\* A row pushed when a condition is truthy, ahead of what the rest of the loop
\* pushes: [err, rows], the rows being those pushed before a throw
keepIf(keep, row, rest) ==
  IF keep.err # NoError THEN [err |-> keep.err, rows |-> <<>>]
  ELSE [err |-> rest.err,
        rows |-> (IF Truthy(keep.v) THEN <<row>> ELSE <<>>) \o rest.rows]

\* The group of joinRows for one rowA, before the placeholder: [err, rows]
RECURSIVE joinGroup(_, _, _)
joinGroup(rowA, rowsB, expression) ==
  IF Len(rowsB) = 0 THEN [err |-> NoError, rows |-> <<>>]
  ELSE keepIf(IF expression = NoExpr THEN Ok(IntV(1))
              ELSE evaluateExpression(expression, rowsB[1] @@ rowA, <<>>),
              rowsB[1] @@ rowA,
              joinGroup(rowA, Tail(rowsB), expression))

\* [...res, ...group] for one rowA, with the placeholder row when nothing
\* matched and a placeholder was given
joinOne(rowA, matched, placeholderIfNoMatch, rest) ==
  IF matched.err # NoError
  THEN [err |-> tag(matched.err, "on clause"), rows |-> <<>>]
  ELSE IF rest.err # NoError THEN rest
  ELSE [err |-> NoError,
        rows |-> (IF Len(matched.rows) = 0 /\ Len(placeholderIfNoMatch) > 0
                  THEN <<placeholderIfNoMatch[1] @@ rowA>>
                  ELSE matched.rows) \o rest.rows]

\* joinRows; placeholderIfNoMatch is <<>> for null and <<placeholder>> for an
\* object (an object, also the empty one, is truthy)
RECURSIVE joinRows(_, _, _, _)
joinRows(rowsA, rowsB, expression, placeholderIfNoMatch) ==
  IF Len(rowsA) = 0 THEN [err |-> NoError, rows |-> <<>>]
  ELSE joinOne(rowsA[1], joinGroup(rowsA[1], rowsB, expression),
               placeholderIfNoMatch,
               joinRows(Tail(rowsA), rowsB, expression, placeholderIfNoMatch))

\* The first occurrence of every element of a sequence
RECURSIVE dedupe(_)
dedupe(seq) ==
  IF Len(seq) = 0 THEN <<>>
  ELSE LET init == dedupe(SubSeq(seq, 1, Len(seq) - 1))
           last == seq[Len(seq)]
       IN  IF \E i \in 1..Len(init) : init[i] = last THEN init ELSE Append(init, last)

\* Object.keys of an output row: the keys the SELECT columns wrote, in order
RECURSIVE outputKeysFrom(_, _, _, _)
outputKeysFrom(selectColumns, i, columns, row) ==
  IF i > Len(selectColumns) THEN <<>>
  ELSE LET c == selectColumns[i]
           starred == SelectSeq(dedupe(columns),
                        LAMBDA k : /\ k[1] # ""
                                   /\ <<k[2]>> \in DOMAIN row
                                   /\ (c.table = "" \/ k[1] = c.table))
           keys == IF c.type = "star"
                   THEN [j \in 1..Len(starred) |-> <<starred[j][2]>>]
                   ELSE << <<IF c.alias # "" THEN c.alias ELSE c.column>> >>
       IN  keys \o outputKeysFrom(selectColumns, i + 1, columns, row)

outputKeys(selectColumns, columns, row) ==
  dedupe(outputKeysFrom(selectColumns, 1, columns, row))

\* The array `rows` of a table source that is the table's own row array
rowsArray_ofTheTable(table) == table

\* The array that [...table.getRows()].map(...) returns is a new one, whose
\* elements mapKeys made: it is no table's row array
rowsArray(table) == ""

\* The rows and the columns of one FROM source: [err, rows, columns, storage].
\* `sub` is the processor of the sub-query after process(), for a derived
\* table.
sourceOf(from, sub) ==
  IF from.type = "select"
  THEN IF from.alias = ""
       THEN [err |-> SubQueryException("Every derived table must have its own alias"),
             rows |-> <<>>, columns |-> <<>>, storage |-> ""]
       ELSE IF sub.err # NoError
       THEN [err |-> sub.err, rows |-> <<>>, columns |-> <<>>, storage |-> ""]
       ELSE [err |-> NoError,
             storage |-> "",
             rows |-> [j \in 1..Len(sub.rows) |-> mapKeys(sub.rows[j], from.alias)],
             columns |->
               IF Len(sub.rows) > 0
               THEN [j \in 1..Len(sub.keys) |-> <<from.alias, sub.keys[j][1]>>]
               ELSE <<>>]
  ELSE [err |-> NoError,
        storage |-> rowsArray(from.table),
        rows |-> [j \in 1..Len(tables[from.table]) |->
                    mapKeys(tables[from.table][j],
                            IF from.alias # "" THEN from.alias ELSE from.table)],
        columns |-> [j \in 1..Len(getColumns(from.table)) |->
                       <<IF from.alias # "" THEN from.alias ELSE from.table,
                         getColumns(from.table)[j].name>>]]

\* The join of this.rows with a source, with `on` applied to a comma join too
joinSource_commaFiltered(p, from, source) ==
  IF from.join \in {"", "CROSS JOIN", "INNER JOIN"}
  THEN joinRows(p.rows, source.rows, from.on, <<>>)
  ELSE IF from.join = "LEFT JOIN"
  THEN joinRows(p.rows, source.rows, from.on,
         <<[k \in {source.columns[j] : j \in 1..Len(source.columns)} |-> Null]>>)
  ELSE [err |-> ProcessorException("Unknown \"" \o from.join \o "\" join type"),
        rows |-> <<>>]

\* The join of this.rows with a source, by its join type: [err, rows]
joinSource(p, from, source) ==
  IF from.join = "" THEN joinRows(p.rows, source.rows, NoExpr, <<>>)
  ELSE IF from.join \in {"CROSS JOIN", "INNER JOIN"}
  THEN joinRows(p.rows, source.rows, from.on, <<>>)
  ELSE IF from.join = "LEFT JOIN"
  THEN joinRows(p.rows, source.rows, from.on,
         <<[k \in {source.columns[j] : j \in 1..Len(source.columns)} |-> Null]>>)
  ELSE [err |-> ProcessorException("Unknown \"" \o from.join \o "\" join type"),
        rows |-> <<>>]

\* One iteration of query.from.forEach: source i on processor p
addSource(p, from, i, source, joined) ==
  IF source.err # NoError THEN Throw(p, source.err)
  ELSE IF i = 1
  THEN [p EXCEPT !.rows = source.rows, !.columns = @ \o source.columns,
                 !.storage = source.storage]
  ELSE IF joined.err # NoError
  THEN Throw([p EXCEPT !.columns = @ \o source.columns], joined.err)
  ELSE [p EXCEPT !.rows = joined.rows, !.columns = @ \o source.columns,
                 !.storage = ""]

addSourceAt(p, from, i, source) ==
  addSource(p, from, i, source, joinSource(p, from, source))

\* The result of the sub-query of a derived table: process() and Object.keys
\* of its first row
subResult(from, sub) ==
  [err |-> sub.err, rows |-> sub.rows,
   keys |-> IF sub.err = NoError /\ Len(sub.rows) > 0
            THEN outputKeys(from.query.columns, sub.columns, sub.rows[1])
            ELSE <<>>]

\* applyFrom, from source i on
RECURSIVE applyFromAt(_, _, _)
applyFromAt(p, query, i) ==
  IF i > Len(query.from) \/ p.err # NoError THEN p
  ELSE applyFromAt(
         addSourceAt(p, query.from[i], i,
           sourceOf(query.from[i],
             IF query.from[i].type = "select" /\ query.from[i].alias # ""
             THEN subResult(query.from[i], processSelect(query.from[i].query))
             ELSE [err |-> NoError, rows |-> <<>>, keys |-> <<>>])),
         query, i + 1)

applyFrom(p, query) == applyFromAt(p, query, 1)

\* rows.filter(row => evaluate(expression, row)): [err, rows]
RECURSIVE filterRows(_, _)
filterRows(rows, expression) ==
  IF Len(rows) = 0 THEN [err |-> NoError, rows |-> <<>>]
  ELSE keepIf(evaluateExpression(expression, rows[1], <<>>), rows[1],
              filterRows(Tail(rows), expression))

\* this.rows = <r>, a new array, or the throw of the clause
setRows(p, r, clause) ==
  IF r.err # NoError THEN Throw(p, tag(r.err, clause))
  ELSE [p EXCEPT !.rows = r.rows, !.storage = ""]

applyWhere(p, query) ==
  IF query.where = NoExpr THEN p
  ELSE setRows(p, filterRows(p.rows, query.where), "where clause")

AggregateNames == {"count", "sum", "min", "max", "avg"}

\* c.type === 'function' && ['count', ...].includes(c.name)
isAggregateColumn(c) == c.type = "function" /\ c.name \in AggregateNames

\* One mapped value ahead of the values that follow: [err, values]
consValue(head, rest) ==
  IF head.err # NoError THEN [err |-> head.err, values |-> <<>>]
  ELSE IF rest.err # NoError THEN rest
  ELSE [err |-> NoError, values |-> <<head.v>> \o rest.values]

\* this.query.groupBy.map(mapper) on a row: [err, values]
RECURSIVE groupValues(_, _, _)
groupValues(groupBy, i, row) ==
  IF i > Len(groupBy) THEN [err |-> NoError, values |-> <<>>]
  ELSE consValue(evaluateExpression(groupBy[i], row, <<>>),
                 groupValues(groupBy, i + 1, row))

\* groupedRows.set(hash, [...(groupedRows.get(hash) || []), row])
setGroup(groupedRows, hash, row) ==
  IF \E g \in 1..Len(groupedRows) : groupedRows[g].hash = hash
  THEN [g \in 1..Len(groupedRows) |->
          IF groupedRows[g].hash = hash
          THEN [groupedRows[g] EXCEPT !.rows = Append(@, row)]
          ELSE groupedRows[g]]
  ELSE Append(groupedRows, [hash |-> hash, rows |-> <<row>>])

\* this.rows.forEach(...) of applyGroupBy, from row i on: [err, groupedRows]
RECURSIVE groupRows(_, _, _, _)

\* The body of that loop for row i, whose GROUP BY values are `key`
groupRow(rows, groupBy, i, groupedRows, key) ==
  IF key.err # NoError THEN [err |-> key.err, groupedRows |-> groupedRows]
  ELSE groupRows(rows, groupBy, i + 1,
         setGroup(groupedRows, hashCode(join(key.values, "::")), rows[i]))

groupRows(rows, groupBy, i, groupedRows) ==
  IF i > Len(rows) THEN [err |-> NoError, groupedRows |-> groupedRows]
  ELSE groupRow(rows, groupBy, i, groupedRows, groupValues(groupBy, 1, rows[i]))

\* this.groupedRows as the loop left it, or the throw of the clause
setGroupedRows(p, grouped) ==
  IF grouped.err # NoError THEN Throw(p, tag(grouped.err, "group statement"))
  ELSE [p EXCEPT !.groupedRows = grouped.groupedRows]

\* The position, counted from 0, of the first column_ref of the SELECT list:
\* columns.indexOf(columns.find(c => c.type === 'column_ref'))
columnRefIndex(selectColumns) ==
  (CHOOSE i \in 1..Len(selectColumns) :
     /\ selectColumns[i].type = "column_ref"
     /\ \A j \in 1..(i - 1) : selectColumns[j].type # "column_ref") - 1

\* The message of the throw for the column_ref at position i, counted from 0
nonAggregatedColumn_zeroBased(selectColumns, i) ==
  "In aggregated query without GROUP BY, expression #" \o ToString(i)
  \o " of SELECT list contains nonaggregated column '"
  \o (IF selectColumns[i + 1].table # ""
      THEN selectColumns[i + 1].table \o "." \o selectColumns[i + 1].column
      ELSE selectColumns[i + 1].column)
  \o "'"

nonAggregatedColumn(selectColumns, i) ==
  "In aggregated query without GROUP BY, expression #" \o ToString(i + 1)
  \o " of SELECT list contains nonaggregated column '"
  \o (IF selectColumns[i + 1].table # ""
      THEN selectColumns[i + 1].table \o "." \o selectColumns[i + 1].column
      ELSE selectColumns[i + 1].column)
  \o "'"

applyGroupBy(p, query) ==
  IF Len(query.groupBy) = 0
  THEN IF ~\E i \in 1..Len(query.columns) : isAggregateColumn(query.columns[i])
       THEN p
       ELSE IF \E i \in 1..Len(query.columns) : query.columns[i].type = "column_ref"
       THEN Throw(p, ProcessorException(
              nonAggregatedColumn(query.columns, columnRefIndex(query.columns))))
       ELSE [p EXCEPT !.groupedRows = <<[hash |-> "1", rows |-> p.rows]>>,
                      !.shared = TRUE]
  ELSE setGroupedRows(p, groupRows(p.rows, query.groupBy, 1, p.groupedRows))

\* One sort key of the comparator on the mapped values of two rows:
\* [err, c] with c < 0 when a goes first, c > 0 when b goes first
compareValues(va, vb, order, rest) ==
  IF va.err # NoError THEN [err |-> va.err, c |-> 0]
  ELSE IF vb.err # NoError THEN [err |-> vb.err, c |-> 0]
  ELSE IF Less(vb.v, va.v) THEN [err |-> NoError, c |-> order]
  ELSE IF Less(va.v, vb.v) THEN [err |-> NoError, c |-> -order]
  ELSE rest

\* The comparator sortBy(sortKeys) on two rows, from key i on
RECURSIVE compareRows(_, _, _, _)
compareRows(a, b, orderBy, i) ==
  IF i > Len(orderBy) THEN [err |-> NoError, c |-> 0]
  ELSE compareValues(evaluateExpression(orderBy[i], a, <<>>),
                     evaluateExpression(orderBy[i], b, <<>>),
                     IF orderBy[i].order = "ASC" THEN 1 ELSE -1,
                     compareRows(a, b, orderBy, i + 1))

\* A row put into sorted rows, after the last row that does not go after it;
\* cmps[j] is the comparator on sorted[j] and the row
insertRow(sorted, row, cmps) ==
  LET failed == {j \in 1..Len(sorted) : cmps[j].err # NoError}
      notAfter == {j \in 1..Len(sorted) : cmps[j].c <= 0}
      at == IF notAfter = {} THEN 0
            ELSE CHOOSE j \in notAfter : \A k \in notAfter : k <= j
  IN  IF failed # {}
      THEN [err |-> cmps[CHOOSE j \in failed : TRUE].err, rows |-> sorted]
      ELSE [err |-> NoError,
            rows |-> SubSeq(sorted, 1, at) \o <<row>>
                     \o SubSeq(sorted, at + 1, Len(sorted))]

insertLast(init, row, orderBy) ==
  IF init.err # NoError THEN init
  ELSE insertRow(init.rows, row,
         [j \in 1..Len(init.rows) |-> compareRows(init.rows[j], row, orderBy, 1)])

\* Array.prototype.sort with that comparator: a stable sort, here by
\* insertion; [err, rows]
RECURSIVE sortRows(_, _)
sortRows(rows, orderBy) ==
  IF Len(rows) <= 1 THEN [err |-> NoError, rows |-> rows]
  ELSE insertLast(sortRows(SubSeq(rows, 1, Len(rows) - 1), orderBy),
                  rows[Len(rows)], orderBy)

\* this.rows.sort(...) sorts the array in place: the single group of an
\* aggregate without GROUP BY is that array
setSorted(p, sorted) ==
  IF sorted.err # NoError THEN Throw(p, tag(sorted.err, "order clause"))
  ELSE [p EXCEPT !.rows = sorted.rows,
                 !.groupedRows = IF p.shared
                                 THEN <<[hash |-> "1", rows |-> sorted.rows]>>
                                 ELSE @]

applyOrderBy(p, query) ==
  IF Len(query.orderBy) = 0 THEN p
  ELSE setSorted(p, sortRows(p.rows, query.orderBy))

\* The empty input row injected for function columns only
needsInputRow_functionOnly(selectColumns) ==
  \E i \in 1..Len(selectColumns) : selectColumns[i].type = "function"

\* The first lines of applySelectAndHaving: the empty input row, and the
\* aliases added to the scope
needsInputRow(selectColumns) ==
  \E i \in 1..Len(selectColumns) :
    selectColumns[i].type \in
      {"function", "number", "string", "boolean", "null", "binary_expression",
       "case", "select"}

RECURSIVE aliasKeys(_, _)
aliasKeys(selectColumns, i) ==
  IF i > Len(selectColumns) THEN <<>>
  ELSE (IF selectColumns[i].type # "star" /\ selectColumns[i].alias # ""
        THEN << <<"", selectColumns[i].alias>> >> ELSE <<>>)
       \o aliasKeys(selectColumns, i + 1)

applySelect(p, query) ==
  [p EXCEPT !.rows = IF Len(p.rows) = 0 /\ needsInputRow(query.columns)
                     THEN << <<>> >> ELSE @,
            !.shared = IF Len(p.rows) = 0 /\ needsInputRow(query.columns)
                       THEN FALSE ELSE @,
            !.storage = IF Len(p.rows) = 0 /\ needsInputRow(query.columns)
                        THEN "" ELSE @,
            !.columns = @ \o aliasKeys(query.columns, 1)]

\* mapRow, from SELECT column i on: [err, mappedRow, rawRowWithAliases]
RECURSIVE mapRowAt(_, _, _, _, _)

\* The reducer of mapRow with no entry for the alias in the scope of HAVING
mapColumn_noAliasScope(selectColumns, i, rawRow, group, acc, value) ==
  IF value.err # NoError THEN [acc EXCEPT !.err = tag(value.err, "field list")]
  ELSE mapRowAt(selectColumns, i + 1, rawRow, group,
         [acc EXCEPT
            !.mappedRow =
              (<<IF selectColumns[i].alias # "" THEN selectColumns[i].alias
                 ELSE selectColumns[i].column>> :> value.v) @@ @])

\* The reducer of mapRow on a column that is not a star, evaluated to `value`
mapColumn(selectColumns, i, rawRow, group, acc, value) ==
  IF value.err # NoError THEN [acc EXCEPT !.err = tag(value.err, "field list")]
  ELSE mapRowAt(selectColumns, i + 1, rawRow, group,
         [acc EXCEPT
            !.mappedRow =
              (<<IF selectColumns[i].alias # "" THEN selectColumns[i].alias
                 ELSE selectColumns[i].column>> :> value.v) @@ @,
            !.rawRowWithAliases =
              IF selectColumns[i].alias # ""
              THEN (<<"", selectColumns[i].alias>> :> value.v) @@ @
              ELSE @])

mapRowAt(selectColumns, i, rawRow, group, acc) ==
  IF i > Len(selectColumns) THEN acc
  ELSE IF selectColumns[i].type = "star"
  THEN mapRowAt(selectColumns, i + 1, rawRow, group,
         [acc EXCEPT !.mappedRow = evaluateStar(selectColumns[i], rawRow) @@ @])
  ELSE mapColumn(selectColumns, i, rawRow, group, acc,
         evaluateExpression(selectColumns[i], rawRow, group))

mapRow(query, rawRow, group) ==
  mapRowAt(query.columns, 1, rawRow, group,
    [err |-> NoError, mappedRow |-> <<>>, rawRowWithAliases |-> rawRow])

\* An evaluation inside the try of a clause
tagged(r, clause) == IF r.err # NoError THEN Fail(tag(r.err, clause)) ELSE r

\* checkIfKeep: [err, v]
checkIfKeep(query, row, group) ==
  IF query.having = NoExpr THEN Ok(IntV(1))
  ELSE tagged(evaluateExpression(query.having, row, group), "having clause")

\* The loop over the rows (ungrouped) or over the groups (grouped), from
\* entry i on; an entry is [rawRow, group]: [err, rows]
RECURSIVE projectAt(_, _, _)

\* The body of that loop for entry i, mapped to `mapped`
projectMapped(query, entries, i, mapped) ==
  IF mapped.err # NoError THEN [err |-> mapped.err, rows |-> <<>>]
  ELSE keepIf(checkIfKeep(query, mapped.rawRowWithAliases, entries[i].group),
              mapped.mappedRow,
              projectAt(query, entries, i + 1))

projectAt(query, entries, i) ==
  IF i > Len(entries) THEN [err |-> NoError, rows |-> <<>>]
  ELSE projectMapped(query, entries, i,
         mapRow(query, entries[i].rawRow, entries[i].group))

\* The DISTINCT filter: the first row of every value string
RECURSIVE distinctRows(_, _, _)
distinctRows(rows, keys, index) ==
  IF Len(rows) = 0 THEN <<>>
  ELSE LET value == join([j \in 1..Len(keys) |->
                           IF keys[j] \in DOMAIN rows[1] THEN rows[1][keys[j]]
                           ELSE Null], "-")
       IN  IF value \in index THEN distinctRows(Tail(rows), keys, index)
           ELSE <<rows[1]>> \o distinctRows(Tail(rows), keys, index \cup {value})

\* The end of applySelectAndHaving on the projected rows: a throw leaves in
\* this.rows what was pushed before it; DISTINCT goes by Object.keys of the
\* first row
selected(p, query, projected) ==
  IF projected.err # NoError
  THEN Throw([p EXCEPT !.rows = projected.rows, !.storage = ""], projected.err)
  ELSE [p EXCEPT !.rows = IF query.distinct /\ Len(projected.rows) > 0
                          THEN distinctRows(projected.rows,
                                 outputKeys(query.columns, p.columns, projected.rows[1]),
                                 {})
                          ELSE projected.rows,
                 !.shared = FALSE,
                 !.storage = ""]

\* The rest of applySelectAndHaving: projection, HAVING, DISTINCT.  The first
\* row of an empty group is undefined; it is read here as a row without keys.
applyHaving(p, query) ==
  LET entries ==
        IF Len(p.groupedRows) = 0
        THEN [i \in 1..Len(p.rows) |-> [rawRow |-> p.rows[i], group |-> <<>>]]
        ELSE [g \in 1..Len(p.groupedRows) |->
                [rawRow |-> IF Len(p.groupedRows[g].rows) = 0 THEN <<>>
                            ELSE p.groupedRows[g].rows[1],
                 group |-> p.groupedRows[g].rows]]
  IN  selected(p, query, projectAt(query, entries, 1))

applySelectAndHaving(p, query) == applyHaving(applySelect(p, query), query)

\* applyLimit
applyLimit_offByOne(p, query) ==
  LET dropped == IF query.offset # 0
                 THEN SelectSeq([i \in 1..Len(p.rows) |-> [i |-> i - 1, row |-> p.rows[i]]],
                                LAMBDA e : e.i > query.offset)
                 ELSE [i \in 1..Len(p.rows) |-> [i |-> i - 1, row |-> p.rows[i]]]
      rows == [i \in 1..Len(dropped) |-> dropped[i].row]
  IN  [p EXCEPT !.rows = IF query.limit # 0 /\ Len(rows) > query.limit
                         THEN SubSeq(rows, 1, query.limit) ELSE rows,
                 !.storage = IF query.offset # 0 THEN "" ELSE @]

applyLimit(p, query) ==
  LET dropped == IF query.offset # 0
                 THEN SelectSeq([i \in 1..Len(p.rows) |-> [i |-> i - 1, row |-> p.rows[i]]],
                                LAMBDA e : e.i >= query.offset)
                 ELSE [i \in 1..Len(p.rows) |-> [i |-> i - 1, row |-> p.rows[i]]]
      rows == [i \in 1..Len(dropped) |-> dropped[i].row]
  IN  [p EXCEPT !.rows = IF query.limit # 0 /\ Len(rows) > query.limit
                         THEN SubSeq(rows, 1, query.limit) ELSE rows,
                 !.storage = IF query.offset # 0 THEN "" ELSE @]

\* One stage of process() on a processor that may have thrown already
runStage(p, query, stage(_, _)) == IF p.err # NoError THEN p ELSE stage(p, query)

\* SelectProcessor.process of a sub-query: the stages in order, stopping at
\* the first throw
processSelect(query) ==
  runStage(
    runStage(
      runStage(
        runStage(
          runStage(applyFrom(NewProcessor, query), query, applyWhere),
          query, applyGroupBy),
        query, applyOrderBy),
      query, applySelectAndHaving),
    query, applyLimit)

\* -------------------------------------------------------- SELECT queries
SelectQuery(from, selectColumns, where, groupBy, having, orderBy, limit, offset, distinct) ==
  [from |-> from, columns |-> selectColumns, where |-> where, groupBy |-> groupBy,
   having |-> having, orderBy |-> orderBy, limit |-> limit, offset |-> offset,
   distinct |-> distinct]

\* SELECT <selectColumns> FROM <from>
Select(selectColumns, from) ==
  SelectQuery(from, selectColumns, NoExpr, <<>>, NoExpr, <<>>, 0, 0, FALSE)

FromTable(table, alias, joinType, on) ==
  [type |-> "table", table |-> table, alias |-> alias, join |-> joinType, on |-> on]
FromSelect(subQuery, alias, joinType, on) ==
  [type |-> "select", query |-> subQuery, alias |-> alias, join |-> joinType, on |-> on]

Users == FromTable("users", "", "", NoExpr)
Col(table, column) == WithAlias(ColumnRef(table, column), column, "")
ColAs(table, column, alias) == WithAlias(ColumnRef(table, column), column, alias)

\* ------------------------------------------------------------- the parser
\* The AST of a SELECT as fromAst reads it: columns of {expr, as} (the column
\* '*' is the expression of type "*"), from of {db, table, as, join, on},
\* where, groupby, orderby of {expr, type}, and limit {value, seperator}
AstColumnRef(table, column) == [type |-> "column_ref", table |-> table, column |-> column]
AstBinary(operator, left, right) ==
  [type |-> "binary_expr", operator |-> operator, left |-> left, right |-> right]
AstNumber(value) == [type |-> "number", value |-> value]
AstFunction(name) == [type |-> "function", name |-> name]
AstStar == [type |-> "*"]
AstColumn(expr, as) == [expr |-> expr, as |-> as]
AstFrom(table, as, joinType, on) ==
  [db |-> "", table |-> table, as |-> as, join |-> joinType, on |-> on]
NoLimit == [value |-> <<>>, seperator |-> ""]
AstLimit(value, seperator) == [value |-> value, seperator |-> seperator]

\* The expression of an AST node: a table alias in a column_ref or in a
\* T.* is replaced by the table it stands for
RECURSIVE buildExpression(_, _)
buildExpression(e, tableAliases) ==
  IF e.type = "star" THEN Star("")
  ELSE IF e.type = "column_ref"
  THEN IF e.column = "*"
       THEN Star(IF e.table \in DOMAIN tableAliases THEN tableAliases[e.table]
                 ELSE e.table)
       ELSE ColumnRef(IF e.table \in DOMAIN tableAliases THEN tableAliases[e.table]
                      ELSE e.table,
                      e.column)
  ELSE IF e.type = "binary_expr"
  THEN Binary(e.operator, buildExpression(e.left, tableAliases),
              buildExpression(e.right, tableAliases))
  ELSE IF e.type = "number" THEN NumberLit(e.value)
  ELSE Function(e.name, <<>>)

\* tableAliases after ast.from.forEach(f => f.as && tableAliases.set(f.as,
\* f.table)): the last table of every alias
aliasesOf(from) ==
  [a \in {from[i].as : i \in {j \in 1..Len(from) : from[j].as # ""}} |->
     from[CHOOSE i \in 1..Len(from) :
            /\ from[i].as = a
            /\ \A j \in 1..Len(from) : from[j].as = a => j <= i].table]

\* One element of `from`, with the alias of the source kept on it
fromOf_withAlias(f, tableAliases) ==
  FromTable(f.table, f.as, f.join,
            IF f.on # NoExpr THEN buildExpression(f.on, tableAliases) ELSE NoExpr)

\* One element of `from`: {database, table, join, on}, no alias
fromOf(f, tableAliases) ==
  FromTable(f.table, "", f.join,
            IF f.on # NoExpr THEN buildExpression(f.on, tableAliases) ELSE NoExpr)

\* One element of `columns`: [err, column]
columnOf(c, tableAliases) ==
  IF c.expr.type = "*"
  THEN [err |-> NoError,
        column |-> WithAlias(buildExpression([type |-> "star"], tableAliases), "*", "")]
  ELSE IF c.expr.type = "column_ref" /\ c.expr.column = "*"
  THEN [err |-> NoError,
        column |-> WithAlias(buildExpression(c.expr, tableAliases), "*", "")]
  ELSE IF c.expr.type = "column_ref"
  THEN [err |-> NoError,
        column |-> WithAlias(buildExpression(c.expr, tableAliases), c.expr.column, c.as)]
  ELSE IF c.expr.type \in {"binary_expr", "aggr_func", "function"}
  THEN [err |-> NoError,
        column |-> WithAlias(buildExpression(c.expr, tableAliases),
                             IF c.expr.type \in {"aggr_func", "function"}
                             THEN c.expr.name \o "()" ELSE "",
                             c.as)]
  ELSE [err |-> [kind |-> "Error", code |-> "", message |-> "Could not map columns"],
        column |-> NoExpr]

\* limit and offset of LIMIT b, of LIMIT a, b and of LIMIT b OFFSET a, with
\* the two values of the short syntax read in the order of the long one
limitOf_sameOrder(limit) ==
  IF Len(limit.value) = 1 THEN [limit |-> limit.value[1], offset |-> 0]
  ELSE IF Len(limit.value) = 2 /\ limit.seperator \in {",", "offset"}
  THEN [limit |-> limit.value[1], offset |-> limit.value[2]]
  ELSE [limit |-> 0, offset |-> 0]

\* limit and offset of LIMIT b, of LIMIT a, b and of LIMIT b OFFSET a
limitOf(limit) ==
  IF Len(limit.value) = 1 THEN [limit |-> limit.value[1], offset |-> 0]
  ELSE IF Len(limit.value) = 2 /\ limit.seperator = ","
  THEN [limit |-> limit.value[2], offset |-> limit.value[1]]
  ELSE IF Len(limit.value) = 2 /\ limit.seperator = "offset"
  THEN [limit |-> limit.value[1], offset |-> limit.value[2]]
  ELSE [limit |-> 0, offset |-> 0]

\* SelectQuery.fromAst: [err, query]
fromAst(ast) ==
  IF \E i \in 1..Len(ast.columns) :
       columnOf(ast.columns[i], aliasesOf(ast.from)).err # NoError
  THEN [err |-> columnOf(ast.columns[CHOOSE i \in 1..Len(ast.columns) :
                           columnOf(ast.columns[i], aliasesOf(ast.from)).err # NoError],
                         aliasesOf(ast.from)).err,
        query |-> [from |-> <<>>]]
  ELSE [err |-> NoError,
        query |->
          SelectQuery(
            [i \in 1..Len(ast.from) |-> fromOf(ast.from[i], aliasesOf(ast.from))],
            [i \in 1..Len(ast.columns) |->
               columnOf(ast.columns[i], aliasesOf(ast.from)).column],
            IF ast.where # NoExpr THEN buildExpression(ast.where, aliasesOf(ast.from))
            ELSE NoExpr,
            [i \in 1..Len(ast.groupby) |->
               buildExpression(ast.groupby[i], aliasesOf(ast.from))],
            NoExpr,
            [i \in 1..Len(ast.orderby) |->
               [order |-> ast.orderby[i].type]
                 @@ buildExpression(ast.orderby[i].expr, aliasesOf(ast.from))],
            limitOf(ast.limit).limit,
            limitOf(ast.limit).offset,
            FALSE)]

\* ----------------------------------------------------------- SELECT state
VARIABLES
  ast,          \* the AST the query is built from, when it is parsed
  query,        \* the SelectQuery the processor was built for
  pc,           \* the stage of process() that runs next
  rows,         \* this.rows
  groupedRows,  \* this.groupedRows
  columns,      \* this.columns
  shared,       \* this.groupedRows holds the array this.rows refers to
  storage,      \* the table whose row array this.rows refers to, or ""
  thrown        \* the error process() threw

selectVars == <<ast, query, pc, rows, groupedRows, columns, shared, storage, thrown>>

vars == <<tables, autoInc, lastQuery, result, before,
          ast, query, pc, rows, groupedRows, columns, shared, storage, thrown>>

\* No SELECT in progress
NoAst == [from |-> <<>>]

NoSelect ==
  /\ ast = NoAst
  /\ query = [from |-> <<>>]
  /\ pc = "idle"
  /\ rows = <<>>
  /\ groupedRows = <<>>
  /\ columns = <<>>
  /\ shared = FALSE
  /\ storage = ""
  /\ thrown = [kind |-> "none", code |-> "", message |-> ""]

\* ------------------------------------------------------------ SELECT data
UserRow(id, name) == (<<"id">> :> IntV(id)) @@ (<<"name">> :> name)
PostRow(userId) == (<<"user_id">> :> IntV(userId)) @@ (<<"body">> :> StrV("x"))
SeqsWithin(S, n) == UNION {[1..k -> S] : k \in 0..n}

\* The ids of the rows of users, in insertion order: no id twice
UserIds(n) ==
  {ids \in SeqsWithin(1..n, n) : \A i, j \in 1..Len(ids) : i # j => ids[i] # ids[j]}

UsersPlain ==
  {[i \in 1..Len(ids) |-> UserRow(ids[i], StrV("a"))] : ids \in UserIds(MaxSelectRows)}
UsersJoin ==
  {[i \in 1..Len(ids) |-> UserRow(ids[i], StrV("a"))] : ids \in UserIds(MaxJoinRows)}
UsersNamed ==
  {[i \in 1..Len(names) |-> UserRow(i, names[i])] :
     names \in SeqsWithin({Null, StrV(""), StrV("a")}, MaxJoinRows)}
PostsData == SeqsWithin({PostRow(i) : i \in 1..2}, MaxJoinRows)

\* ------------------------------------------------------ SELECT statements
Posts(joinType, on) == FromTable("posts", "", joinType, on)
AllColumns == WithAlias(Star(""), "*", "")
CountOf(arg, text) == WithAlias(Function("count", <<arg>>), text, "c")
Literal(e, text) == WithAlias(e, text, "")

\* <t>.user_id = users.id
OnUserId(t) == Binary("=", ColumnRef(t, "user_id"), ColumnRef("users", "id"))

\* SELECT id FROM users [ORDER BY id DESC] LIMIT l OFFSET o
LimitQueries ==
  {[Select(<<Col("", "id")>>, <<Users>>)
      EXCEPT !.orderBy = o, !.limit = l, !.offset = f] :
     o \in {<<>>, <<OrderBy("", "id", "DESC")>>},
     l \in 0..MaxLimit, f \in 0..MaxLimit}

\* SELECT * FROM users <join> posts [ON posts.user_id = users.id]
JoinQueries ==
  {Select(<<AllColumns>>, <<Users, Posts(j, on)>>) :
     j \in {"", "CROSS JOIN", "INNER JOIN", "LEFT JOIN", "RIGHT JOIN"},
     on \in {NoExpr, OnUserId("posts")}}

\* SELECT * FROM posts [WHERE user_id = 0]
PostsWhere(where) == [Select(<<AllColumns>>, <<Posts("", NoExpr)>>) EXCEPT !.where = where]

\* SELECT * FROM users <join> (SELECT * FROM posts [WHERE user_id = 0]) [p]
\*   ON p.user_id = users.id
DerivedQueries ==
  {Select(<<AllColumns>>, <<Users, FromSelect(PostsWhere(w), a, j, OnUserId("p"))>>) :
     w \in {NoExpr, Binary("=", ColumnRef("", "user_id"), NumberLit(0))},
     a \in {"p", ""},
     j \in {"INNER JOIN", "LEFT JOIN"}}

\* SELECT name, COUNT(*) AS c FROM users GROUP BY name
\* SELECT name, id FROM users GROUP BY name, id
GroupQueries ==
  {[Select(<<Col("", "name"), CountOf(Star(""), "count(*)")>>, <<Users>>)
      EXCEPT !.groupBy = <<ColumnRef("", "name")>>],
   [Select(<<Col("", "name"), Col("", "id")>>, <<Users>>)
      EXCEPT !.groupBy = <<ColumnRef("", "name"), ColumnRef("", "id")>>]}

\* SELECT id [AS a] FROM users [ORDER BY <id or a> <order>]
\* SELECT id FROM users ORDER BY name ASC, id <order>
\* SELECT id, COUNT(*) AS c FROM users GROUP BY id [ORDER BY id <order>]
\* SELECT COUNT(*) AS c FROM users ORDER BY id <order>
OrderQueries ==
  {Select(<<Col("", "id")>>, <<Users>>),
   [Select(<<Col("", "id"), CountOf(Star(""), "count(*)")>>, <<Users>>)
      EXCEPT !.groupBy = <<ColumnRef("", "id")>>]}
  \cup UNION {
    {[Select(<<Col("", "id")>>, <<Users>>)
        EXCEPT !.orderBy = <<OrderBy("", "id", o)>>],
     [Select(<<ColAs("", "id", "a")>>, <<Users>>)
        EXCEPT !.orderBy = <<OrderBy("", "a", o)>>],
     [Select(<<Col("", "id")>>, <<Users>>)
        EXCEPT !.orderBy = <<OrderBy("", "name", "ASC"), OrderBy("", "id", o)>>],
     [Select(<<Col("", "id"), CountOf(Star(""), "count(*)")>>, <<Users>>)
        EXCEPT !.groupBy = <<ColumnRef("", "id")>>,
               !.orderBy = <<OrderBy("", "id", o)>>],
     [Select(<<CountOf(Star(""), "count(*)")>>, <<Users>>)
        EXCEPT !.orderBy = <<OrderBy("", "id", o)>>]} : o \in {"ASC", "DESC"}}

\* SELECT <columns> FROM users [HAVING c > 0], without GROUP BY
AggregateQueries ==
  {Select(cs, <<Users>>) :
     cs \in {<<CountOf(Star(""), "count(*)")>>,
             <<CountOf(ColumnRef("", "name"), "count(name)")>>,
             <<Col("", "id"), CountOf(Star(""), "count(*)")>>,
             <<CountOf(Star(""), "count(*)"), Col("", "name")>>,
             <<CountOf(Star(""), "count(*)"), Literal(NumberLit(1), "1"),
               Col("users", "id"), Col("", "name")>>,
             <<Col("", "id")>>,
             <<Col("", "id"), Literal(Function("database", <<>>), "database()")>>}}
  \cup {[Select(<<CountOf(Star(""), "count(*)")>>, <<Users>>)
           EXCEPT !.having = Binary(">", ColumnRef("", "c"), NumberLit(0))]}

\* One SELECT column of every type
ColumnPool ==
  {Literal(Function("database", <<>>), "database()"),
   Literal(NumberLit(1), "1"),
   Literal(StringLit("a"), "'a'"),
   Literal(BooleanLit(TRUE), "TRUE"),
   Literal(NullLit, "NULL"),
   Literal(Binary("+", NumberLit(1), NumberLit(1)), "1 + 1"),
   Literal(Case(<<[cond |-> BooleanLit(FALSE), value |-> NumberLit(1)]>>, NumberLit(2)),
           "CASE WHEN FALSE THEN 1 ELSE 2 END"),
   Literal(SubSelect(Select(<<CountOf(Star(""), "count(*)")>>, <<Users>>)),
           "(SELECT COUNT(*) AS c FROM users)"),
   Col("", "id"),
   AllColumns}

\* SELECT <column> [FROM users]
\* SELECT id, name FROM users
\* SELECT id FROM users HAVING id > 0
ProjectionQueries ==
  {Select(<<c>>, from) : c \in ColumnPool, from \in {<<>>, <<Users>>}}
  \cup {Select(<<Col("", "id"), Col("", "name")>>, <<Users>>),
        [Select(<<Col("", "id")>>, <<Users>>)
           EXCEPT !.having = Binary(">", ColumnRef("", "id"), NumberLit(0))]}

\* SELECT id AS i, name FROM users [HAVING i > 1 | HAVING users.id > 1]
\* SELECT *, id AS i FROM users HAVING i > 1
\* SELECT id AS name FROM users HAVING id > 1
\* SELECT name, COUNT(*) AS c FROM users GROUP BY name HAVING c > 1
HavingQueries ==
  {[Select(<<ColAs("", "id", "i"), Col("", "name")>>, <<Users>>) EXCEPT !.having = h] :
     h \in {NoExpr,
            Binary(">", ColumnRef("", "i"), NumberLit(1)),
            Binary(">", ColumnRef("users", "id"), NumberLit(1))}}
  \cup {[Select(<<AllColumns, ColAs("", "id", "i")>>, <<Users>>)
           EXCEPT !.having = Binary(">", ColumnRef("", "i"), NumberLit(1))],
        [Select(<<ColAs("", "id", "name")>>, <<Users>>)
           EXCEPT !.having = Binary(">", ColumnRef("", "id"), NumberLit(1))],
        [Select(<<Col("", "name"), CountOf(Star(""), "count(*)")>>, <<Users>>)
           EXCEPT !.groupBy = <<ColumnRef("", "name")>>,
                  !.having = Binary(">", ColumnRef("", "c"), NumberLit(1))]}

\* A reference to a column no table has
NoSuchColumn == ColumnRef("", "zz")

\* SELECT * FROM posts WHERE zz / SELECT zz FROM posts
\* SELECT COUNT(*) AS c FROM posts WHERE zz
SubQueryPool ==
  {PostsWhere(NoSuchColumn),
   Select(<<Literal(NoSuchColumn, "zz")>>, <<Posts("", NoExpr)>>),
   [Select(<<CountOf(Star(""), "count(*)")>>, <<Posts("", NoExpr)>>)
      EXCEPT !.where = NoSuchColumn]}

\* Queries that refer to the unknown column zz in one clause, of the query
\* itself, of a derived table or of a scalar sub-query
ErrorQueries ==
  {Select(<<AllColumns>>, <<Users, Posts("INNER JOIN", NoSuchColumn)>>),
   Select(<<AllColumns>>, <<Users, Posts("LEFT JOIN", NoSuchColumn)>>),
   [Select(<<AllColumns>>, <<Users>>) EXCEPT !.where = NoSuchColumn],
   [Select(<<Col("", "id")>>, <<Users>>) EXCEPT !.groupBy = <<NoSuchColumn>>],
   [Select(<<Col("", "id")>>, <<Users>>)
      EXCEPT !.orderBy = <<OrderBy("", "zz", "ASC")>>],
   Select(<<Literal(NoSuchColumn, "zz")>>, <<Users>>),
   [Select(<<Col("", "id")>>, <<Users>>) EXCEPT !.having = NoSuchColumn]}
  \cup {[Select(<<AllColumns>>, <<FromSelect(sub, "p", "", NoExpr)>>)
           EXCEPT !.where = NoSuchColumn] : sub \in SubQueryPool}
  \cup {Select(<<AllColumns>>, <<Users, FromSelect(sub, "p", "INNER JOIN", NoSuchColumn)>>) :
          sub \in SubQueryPool}
  \cup {[Select(<<AllColumns>>, <<Users>>) EXCEPT !.where = SubSelect(sub)] :
          sub \in SubQueryPool}
  \cup {Select(<<Literal(SubSelect(sub), "(sub-query)")>>, <<Users>>) :
          sub \in SubQueryPool}
  \cup {[Select(<<Col("", "id")>>, <<Users>>) EXCEPT !.having = SubSelect(sub)] :
          sub \in SubQueryPool}

\* The name a query written with the alias `a` uses for a table
Qualifier(a, table) == IF a = "" THEN table ELSE a

Ast(selectColumns, from) ==
  [columns |-> selectColumns, from |-> from, where |-> NoExpr, groupby |-> <<>>,
   orderby |-> <<>>, limit |-> NoLimit]

AliasShapes == {"where", "order", "group", "join", "column alias"}

\* The same query written without (a = "") and with a table alias a (and
\* alias p for posts):
\*   SELECT a.* FROM users a WHERE a.id > 1
\*   SELECT a.id FROM users a ORDER BY a.id DESC
\*   SELECT a.name FROM users a GROUP BY a.name
\*   SELECT *, a.name FROM users a JOIN posts p ON p.user_id = a.id
\*   SELECT a.id AS i FROM users a
AliasAst(shape, a) ==
  IF shape = "where"
  THEN [Ast(<<AstColumn(AstColumnRef(Qualifier(a, "users"), "*"), "")>>,
            <<AstFrom("users", a, "", NoExpr)>>)
          EXCEPT !.where = AstBinary(">", AstColumnRef(Qualifier(a, "users"), "id"),
                                     AstNumber(1))]
  ELSE IF shape = "order"
  THEN [Ast(<<AstColumn(AstColumnRef(Qualifier(a, "users"), "id"), "")>>,
            <<AstFrom("users", a, "", NoExpr)>>)
          EXCEPT !.orderby = <<[expr |-> AstColumnRef(Qualifier(a, "users"), "id"),
                                type |-> "DESC"]>>]
  ELSE IF shape = "group"
  THEN [Ast(<<AstColumn(AstColumnRef(Qualifier(a, "users"), "name"), "")>>,
            <<AstFrom("users", a, "", NoExpr)>>)
          EXCEPT !.groupby = <<AstColumnRef(Qualifier(a, "users"), "name")>>]
  ELSE IF shape = "join"
  THEN Ast(<<AstColumn(AstStar, ""),
             AstColumn(AstColumnRef(Qualifier(a, "users"), "name"), "")>>,
           <<AstFrom("users", a, "", NoExpr),
             AstFrom("posts", IF a = "" THEN "" ELSE "p", "INNER JOIN",
                     AstBinary("=",
                       AstColumnRef(Qualifier(IF a = "" THEN "" ELSE "p", "posts"),
                                    "user_id"),
                       AstColumnRef(Qualifier(a, "users"), "id")))>>)
  ELSE Ast(<<AstColumn(AstColumnRef(Qualifier(a, "users"), "id"), "i")>>,
           <<AstFrom("users", a, "", NoExpr)>>)

AliasAsts == {AliasAst(shape, a) : shape \in AliasShapes, a \in {"", "u"}}

\* SELECT * FROM users [LIMIT b | LIMIT a, b | LIMIT b OFFSET a]
LimitAsts ==
  {[Ast(<<AstColumn(AstStar, "")>>, <<AstFrom("users", "", "", NoExpr)>>)
      EXCEPT !.limit = l] :
     l \in {NoLimit}
          \cup {AstLimit(<<b>>, "") : b \in 0..MaxLimit}
          \cup {AstLimit(<<a, b>>, sep) : a \in 0..MaxLimit, b \in 0..MaxLimit,
                                          sep \in {",", "offset"}}}

\* SELECT database() / SELECT 1: a column fromAst maps, and one it does not
OtherAsts ==
  {Ast(<<AstColumn(AstFunction("database"), "")>>, <<>>),
   Ast(<<AstColumn(AstNumber(1), "")>>, <<>>)}

\* -------------------------------------------------------- SELECT machine
\* A processor is constructed for a query, over the tables as they are
StartSelect(q, users, posts) ==
  /\ tables = [t \in Tables |-> IF t = "users" THEN users ELSE posts]
  /\ autoInc = [t \in Tables |-> 0]
  /\ lastQuery = NoQuery
  /\ result = NoResult
  /\ before = [rows |-> <<>>, cursor |-> 0]
  /\ ast = NoAst
  /\ query = q
  /\ pc = "applyFrom"
  /\ rows = NewProcessor.rows
  /\ groupedRows = NewProcessor.groupedRows
  /\ columns = NewProcessor.columns
  /\ shared = NewProcessor.shared
  /\ storage = NewProcessor.storage
  /\ thrown = NewProcessor.err

\* A statement arrives as an AST, over the tables as they are
StartParse(a, users, posts) ==
  /\ tables = [t \in Tables |-> IF t = "users" THEN users ELSE posts]
  /\ autoInc = [t \in Tables |-> 0]
  /\ lastQuery = NoQuery
  /\ result = NoResult
  /\ before = [rows |-> <<>>, cursor |-> 0]
  /\ ast = a
  /\ query = [from |-> <<>>]
  /\ pc = "fromAst"
  /\ rows = NewProcessor.rows
  /\ groupedRows = NewProcessor.groupedRows
  /\ columns = NewProcessor.columns
  /\ shared = NewProcessor.shared
  /\ storage = NewProcessor.storage
  /\ thrown = NewProcessor.err

InitSelect ==
  \/ \E q \in LimitQueries, u \in UsersPlain : StartSelect(q, u, <<>>)
  \/ \E q \in JoinQueries \cup DerivedQueries, u \in UsersJoin, p \in PostsData :
       StartSelect(q, u, p)
  \/ \E q \in GroupQueries \cup HavingQueries, u \in UsersNamed :
       StartSelect(q, u, <<>>)
  \/ \E q \in OrderQueries, u \in UsersPlain : StartSelect(q, u, <<>>)
  \/ \E q \in AggregateQueries \cup ProjectionQueries, u \in UsersJoin :
       StartSelect(q, u, <<>>)

\* The queries that refer to an unknown column
InitErrors ==
  \E q \in ErrorQueries, u \in UsersJoin, p \in PostsData : StartSelect(q, u, p)

\* The statements that arrive as an AST
InitParse ==
  \/ \E a \in AliasAsts \cup OtherAsts, u \in UsersJoin, p \in PostsData :
       StartParse(a, u, p)
  \/ \E a \in LimitAsts, u \in UsersPlain : StartParse(a, u, <<>>)

Processor ==
  [rows |-> rows, groupedRows |-> groupedRows, columns |-> columns,
   shared |-> shared, storage |-> storage, err |-> thrown]

\* The stored rows after a stage: the array of a table that this.rows refers
\* to holds what this.rows holds
storedRows(p) ==
  IF p.storage = "" THEN tables
  ELSE [tables EXCEPT ![p.storage] =
          [j \in 1..Len(p.rows) |->
             [k \in {<<k0[2]>> : k0 \in DOMAIN p.rows[j]} |->
                p.rows[j][CHOOSE k0 \in DOMAIN p.rows[j] : k0[2] = k[1]]]]]

\* One stage of process(): it runs on the processor and either throws or
\* hands over to the next stage
Stage(stage, next, apply(_, _)) ==
  /\ pc = stage
  /\ LET p == apply(Processor, query)
     IN  /\ rows' = p.rows
         /\ groupedRows' = p.groupedRows
         /\ columns' = p.columns
         /\ shared' = p.shared
         /\ storage' = p.storage
         /\ thrown' = p.err
         /\ tables' = storedRows(p)
         /\ pc' = IF p.err # NoError THEN "thrown" ELSE next
  /\ UNCHANGED <<ast, query, autoInc, lastQuery, result, before>>

\* SelectQuery.fromAst, and the construction of the processor for the query
FromAst ==
  /\ pc = "fromAst"
  /\ query' = fromAst(ast).query
  /\ thrown' = fromAst(ast).err
  /\ pc' = IF fromAst(ast).err # NoError THEN "thrown" ELSE "applyFrom"
  /\ UNCHANGED <<ast, rows, groupedRows, columns, shared, storage,
                 tables, autoInc, lastQuery, result, before>>

ApplyFrom == Stage("applyFrom", "applyWhere", applyFrom)
ApplyWhere == Stage("applyWhere", "applyGroupBy", applyWhere)
ApplyGroupBy == Stage("applyGroupBy", "applyOrderBy", applyGroupBy)
ApplyOrderBy == Stage("applyOrderBy", "applySelectAndHaving", applyOrderBy)
\* applySelectAndHaving in two steps: the empty input row and the alias
\* scope, then projection, HAVING and DISTINCT
ApplySelect == Stage("applySelectAndHaving", "applyHaving", applySelect)
ApplyHaving == Stage("applyHaving", "applyLimit", applyHaving)
ApplyLimit == Stage("applyLimit", "done", applyLimit)

NextSelect ==
  \/ ApplyFrom
  \/ ApplyWhere
  \/ ApplyGroupBy
  \/ ApplyOrderBy
  \/ ApplySelect
  \/ ApplyHaving
  \/ ApplyLimit

SpecSelect == InitSelect /\ [][NextSelect]_vars

SpecErrors == InitErrors /\ [][NextSelect]_vars

NextParse ==
  \/ FromAst
  \/ NextSelect

SpecParse == InitParse /\ [][NextParse]_vars

\* -------------------------------------------------------- INSERT machine
Init ==
  /\ tables = [t \in Tables |-> <<>>]
  /\ autoInc = [t \in Tables |-> 0]
  /\ lastQuery = NoQuery
  /\ result = NoResult
  /\ before = [rows |-> <<>>, cursor |-> 0]
  /\ NoSelect

\* One INSERT statement, from entry to return or throw.  The rows committed
\* and the counter draws made before a throw stay.
Insert ==
  \E statement \in InsertQueries :
    LET st == process(statement, tables[statement.table], autoInc[statement.table])
    IN  /\ result = NoResult
        /\ Len(st.rows) + Len(tables[CHOOSE t \in Tables : t # statement.table])
             <= MaxTableRows
        /\ st.cursor <= MaxAutoInc
        /\ tables' = [tables EXCEPT ![statement.table] = st.rows]
        /\ autoInc' = [autoInc EXCEPT ![statement.table] = st.cursor]
        /\ lastQuery' = statement
        /\ before' = [rows |-> tables[statement.table], cursor |-> autoInc[statement.table]]
        /\ result' = IF st.err = NoError
                     THEN [state |-> "returned", affectedRows |-> st.affectedRows,
                           insertId |-> st.insertId, err |-> NoError]
                     ELSE [state |-> "thrown", affectedRows |-> 0,
                           insertId |-> IntV(0), err |-> st.err]
        /\ UNCHANGED selectVars

\* The caller takes the result; the processor is ready for the next statement.
Return ==
  /\ result # NoResult
  /\ lastQuery' = NoQuery
  /\ result' = NoResult
  /\ before' = [rows |-> <<>>, cursor |-> 0]
  /\ UNCHANGED <<tables, autoInc>>
  /\ UNCHANGED selectVars

Next == Insert \/ Return

Spec == Init /\ [][Next]_vars

\* ------------------------------------------- what an INSERT row must do
\* The expression a VALUES row supplies for a column (the last one listed
\* for it), NoExpr when the column is not listed.
Supplied(cols, values, name) ==
  IF \E vi \in 1..Len(cols) : cols[vi] = name
  THEN values[CHOOSE vi \in 1..Len(cols) :
                /\ cols[vi] = name
                /\ \A vj \in (vi + 1)..Len(cols) : cols[vj] # name]
  ELSE NoExpr

\* The message a column's value must be refused with, "" when it is accepted
ColumnMessage(c, e, i) ==
  LET atRow == " at row " \o ToString(i)
  IN  IF e.type \in {"none", "null", "default"}
      THEN IF ~c.autoInc /\ c.default = NoExpr /\ ~c.nullable
           THEN "Field '" \o c.name \o "' doesn't have a default value"
           ELSE ""
      ELSE IF c.kind = "int"
      THEN IF e.type = "string"
           THEN "Incorrect integer value: '" \o e.value \o "' for column '"
                \o c.name \o "'" \o atRow
           ELSE IF e.value < c.lo \/ e.value > c.hi
                THEN "Out of range value for column '" \o c.name \o "'" \o atRow
                ELSE ""
      ELSE IF Len(IF e.type = "number" THEN ToString(e.value) ELSE e.value) > c.hi
           THEN "Data too long for column '" \o c.name \o "'" \o atRow
           ELSE ""

\* The message VALUES row i (1-based) must be refused with, "" when the row
\* must be inserted
RowMessage(table, cols, values, i) ==
  LET cs == getColumns(table)
      names == {cs[ci].name : ci \in 1..Len(cs)}
      unknown == {vi \in 1..Len(cols) :
                    values[vi].type = "default" /\ cols[vi] \notin names}
      msg(ci) == ColumnMessage(cs[ci], Supplied(cols, values, cs[ci].name), i)
      bad == {ci \in 1..Len(cs) : msg(ci) # ""}
  IN  IF Len(values) # Len(cols)
      THEN "Column count doesn't match value count at row " \o ToString(i)
      ELSE IF unknown # {}
      THEN "Unknown column '"
           \o cols[CHOOSE vi \in unknown : \A vj \in unknown : vi <= vj]
           \o "' in 'field list'"
      ELSE IF bad # {}
      THEN msg(CHOOSE ci \in bad : \A cj \in bad : ci <= cj)
      ELSE ""

LastColumns ==
  IF lastQuery.columns = <<>> THEN columnNames(lastQuery.table) ELSE lastQuery.columns

LastMessage(i) == RowMessage(lastQuery.table, LastColumns, lastQuery.values[i], i)

\* The rows the statement found in its table are still there, in place
Kept ==
  /\ Len(tables[lastQuery.table]) >= Len(before.rows)
  /\ SubSeq(tables[lastQuery.table], 1, Len(before.rows)) = before.rows

Added == Len(tables[lastQuery.table]) - Len(before.rows)

\* VALUES row i is the i-th row added: every literal it gives for a column
\* of the table is what that row holds there
StoredAs(i) ==
  LET cs == getColumns(lastQuery.table)
      row == tables[lastQuery.table][Len(before.rows) + i]
  IN  \A ci \in 1..Len(cs) :
        LET e == Supplied(LastColumns, lastQuery.values[i], cs[ci].name)
        IN  /\ <<cs[ci].name>> \in DOMAIN row
            /\ e.type = "number" /\ cs[ci].kind = "int"
                 => row[<<cs[ci].name>>] = IntV(e.value)
            /\ e.type = "string" => row[<<cs[ci].name>>] = StrV(e.value)

\* C1: an INSERT whose n VALUES rows all succeed returns; it adds exactly
\* those n rows after the rows already stored, in VALUES order; affectedRows
\* is n; insertId is the value the last added row holds in the table's
\* auto-increment column, and 0 when the table has no such column.
C1_InsertAllRows ==
  LET n == Len(lastQuery.values)
      t == lastQuery.table
  IN  result.state # "idle" /\ (\A i \in 1..n : LastMessage(i) = "")
      => /\ result.state = "returned"
         /\ Kept
         /\ Added = n
         /\ \A i \in 1..n : StoredAs(i)
         /\ result.affectedRows = n
         /\ result.insertId =
              IF hasAutoIncrementColumn(t)
              THEN tables[t][Len(tables[t])][<<"id">>]
              ELSE IntV(0)

C1_Witness ==
  /\ result.state = "returned"
  /\ lastQuery.table = "users"
  /\ Len(lastQuery.values) = 2
  /\ Added = 2
  /\ result.insertId = IntV(3)

\* C2: when VALUES row i is the first that must be refused, process throws
\* a ProcessorError; rows 1..i-1 have been added, row i and the later rows
\* have not; the message of a cast error (out of range, incorrect integer)
\* is the cast message followed by " at row i", any other message is as
\* raised.
C2_AbortAtFirstFailure ==
  LET n == Len(lastQuery.values)
      failing == {i \in 1..n : LastMessage(i) # ""}
  IN  result.state # "idle" /\ failing # {}
      => LET first == CHOOSE i \in failing : \A j \in failing : i <= j
         IN  /\ result.state = "thrown"
             /\ Kept
             /\ Added = first - 1
             /\ \A i \in 1..(first - 1) : StoredAs(i)
             /\ result.err = ProcessorError(LastMessage(first))

C2_Witness ==
  /\ result.state = "thrown"
  /\ Added = 1
  /\ Len(before.rows) = 1
  /\ result.err.message = "Data too long for column 'name' at row 2"

\* ------------------------------------------------- what a SELECT must do
\* The rows at 0-based positions offset .. offset+limit-1 (to the end when
\* limit is 0)
Slice(r, offset, limit) ==
  [i \in 1..(IF offset >= Len(r) THEN 0
              ELSE IF limit > 0 /\ offset + limit < Len(r) THEN limit
              ELSE Len(r) - offset) |-> r[offset + i]]

\* C3: applyLimit leaves exactly the rows at positions offset ..
\* offset+limit-1 of the rows SELECT/HAVING produced, in order, or all the
\* rows from offset on when limit is 0; so at most limit rows when limit > 0,
\* and none when offset is at least the number of rows.
C3_Limit ==
  [][pc = "applyLimit"
       => /\ pc' = "done"
          /\ rows' = Slice(rows, query.offset, query.limit)
          /\ query.limit > 0 => Len(rows') <= query.limit
          /\ query.offset >= Len(rows) => rows' = <<>>]_vars

C3_Witness ==
  /\ pc = "done"
  /\ query.limit = 1
  /\ query.offset = 1
  /\ query.orderBy = <<>>
  /\ Len(tables["users"]) > query.limit + query.offset
  /\ rows = << (<<"id">> :> tables["users"][2][<<"id">>]) >>

\* ------------------------------------------------------------------ joins
\* Rows under the keys <qualifier>::<column>
KeyedAs(stored, qualifier) ==
  [j \in 1..Len(stored) |->
     [k \in {<<qualifier, c[1]>> : c \in DOMAIN stored[j]} |-> stored[j][<<k[2]>>]]]

\* The rows of a base table under the keys <table>::<column>
Keyed(table) == KeyedAs(tables[table], table)

\* The merged pairs (a, b) of A and B, in left-major order
Pairs(A, B) ==
  [k \in 1..(Len(A) * Len(B)) |->
     B[((k - 1) % Len(B)) + 1] @@ A[((k - 1) \div Len(B)) + 1]]

\* <T1>.<c1> = <T2>.<c2> is truthy on a merged row
OnTruthy(on, row) ==
  /\ row[<<on.left.table, on.left.column>>] # Null
  /\ row[<<on.left.table, on.left.column>>] = row[<<on.right.table, on.right.column>>]

\* applyFrom is about to join users with the base table posts by one of `kinds`
JoinStep(kinds) ==
  /\ pc = "applyFrom"
  /\ Len(query.from) = 2
  /\ query.from[2].type = "table"
  /\ query.from[2].join \in kinds

\* C4 as stated: for a comma join, a CROSS JOIN and an INNER JOIN alike the
\* combined rows are the merged pairs in left-major order on which `on` is
\* truthy, and all |A|*|B| pairs when the source has no `on`.
C4_JoinFilteredByOn ==
  [][JoinStep({"", "CROSS JOIN", "INNER JOIN"})
       => /\ pc' = "applyWhere"
          /\ rows' = IF query.from[2].on = NoExpr
                     THEN Pairs(Keyed("users"), Keyed("posts"))
                     ELSE SelectSeq(Pairs(Keyed("users"), Keyed("posts")),
                                    LAMBDA r : OnTruthy(query.from[2].on, r))]_vars

\* C4, amended: a CROSS JOIN and an INNER JOIN give the merged pairs in
\* left-major order on which `on` is truthy, and all |A|*|B| pairs when the
\* source has no `on`; a comma join gives all |A|*|B| pairs, in left-major
\* order, whether or not the source carries an `on`.
C4_CommaJoinIgnoresOn ==
  [][JoinStep({"", "CROSS JOIN", "INNER JOIN"})
       => /\ pc' = "applyWhere"
          /\ rows' = IF query.from[2].on = NoExpr \/ query.from[2].join = ""
                     THEN Pairs(Keyed("users"), Keyed("posts"))
                     ELSE SelectSeq(Pairs(Keyed("users"), Keyed("posts")),
                                    LAMBDA r : OnTruthy(query.from[2].on, r))
          /\ (query.from[2].on = NoExpr \/ query.from[2].join = "")
               => Len(rows') = Len(tables["users"]) * Len(tables["posts"])]_vars

\* A comma join with an `on` has run and kept a pair on which `on` is false
C4_Witness ==
  /\ pc = "applyWhere"
  /\ Len(query.from) = 2
  /\ query.from[2].type = "table"
  /\ query.from[2].join = ""
  /\ query.from[2].on # NoExpr
  /\ Len(rows) = Len(tables["users"]) * Len(tables["posts"])
  /\ \E i \in 1..Len(rows) : ~OnTruthy(query.from[2].on, rows[i])

\* The right source of a LEFT JOIN of users: the base table posts, or the
\* derived table (SELECT * FROM posts [WHERE user_id = <n>]) <alias>
RightRows(from) ==
  IF from.type = "table" THEN Keyed(from.table)
  ELSE KeyedAs(SelectSeq(tables["posts"],
                 LAMBDA r : \/ from.query.where = NoExpr
                            \/ r[<<"user_id">>] = IntV(from.query.where.right.value)),
               from.alias)

RightKeys(from) ==
  {<<IF from.type = "table" THEN from.table ELSE from.alias, c>> :
     c \in {"user_id", "body"}}

\* Every left row, once per right row on which `on` is truthy, or once with
\* the keys of the right source set to null
RECURSIVE LeftJoined(_, _, _, _)
LeftJoined(A, B, keys, on) ==
  IF Len(A) = 0 THEN <<>>
  ELSE LET matches == SelectSeq([j \in 1..Len(B) |-> B[j] @@ A[1]],
                                LAMBDA r : on = NoExpr \/ OnTruthy(on, r))
       IN  (IF Len(matches) = 0 THEN <<[k \in keys |-> Null] @@ A[1]>> ELSE matches)
           \o LeftJoined(Tail(A), B, keys, on)

\* C5: a LEFT JOIN keeps every left row, once per right row on which `on` is
\* truthy or, when no right row matches, once with every key of the right
\* source present and null; also when the right source has no rows, be it a
\* base table or a derived table.
C5_LeftJoinKeepsLeftRows ==
  [][(/\ pc = "applyFrom"
      /\ Len(query.from) = 2
      /\ query.from[2].join = "LEFT JOIN"
      /\ query.from[2].type = "select" => query.from[2].alias # "")
       => /\ pc' = "applyWhere"
          /\ rows' = LeftJoined(Keyed("users"), RightRows(query.from[2]),
                                RightKeys(query.from[2]), query.from[2].on)]_vars

\* --------------------------------------------------------------- GROUP BY
\* The values of the GROUP BY columns of a row of users
GroupKey(groupBy, row) == [i \in 1..Len(groupBy) |-> row[<<"users", groupBy[i].column>>]]

\* The rows partitioned by the values of their GROUP BY columns: the groups
\* in the order of their first rows, each with its rows in their order
GroupsOf(groupBy, upstream) ==
  LET firsts == SelectSeq(
                  [i \in 1..Len(upstream) |-> i],
                  LAMBDA i : \A j \in 1..(i - 1) :
                    GroupKey(groupBy, upstream[j]) # GroupKey(groupBy, upstream[i]))
  IN  [g \in 1..Len(firsts) |->
         SelectSeq(upstream,
           LAMBDA r : GroupKey(groupBy, r) = GroupKey(groupBy, upstream[firsts[g]]))]

\* C6: with a GROUP BY, two rows are in the same group exactly when their
\* GROUP BY expressions have equal values, the rows keep their upstream order
\* inside a group, and the query emits one row per group in the order in
\* which the groups' first rows were seen.
C6_GroupByPartition ==
  [][/\ (pc = "applyGroupBy" /\ Len(query.groupBy) > 0)
          => /\ pc' = "applyOrderBy"
             /\ [g \in 1..Len(groupedRows') |-> groupedRows'[g].rows]
                  = GroupsOf(query.groupBy, rows)
     /\ (pc = "applyHaving" /\ Len(query.groupBy) > 0 /\ query.having = NoExpr)
          => /\ pc' = "applyLimit"
             /\ Len(rows') = Len(GroupsOf(query.groupBy, Keyed("users")))
             /\ \A g \in 1..Len(rows') :
                  \A i \in 1..Len(query.groupBy) :
                    rows'[g][<<query.groupBy[i].column>>]
                      = GroupsOf(query.groupBy, Keyed("users"))[g][1]
                          [<<"users", query.groupBy[i].column>>]]_vars

\* ------------------------------------------------- aggregate, no GROUP BY
Aggregates == {"count", "sum", "min", "max", "avg"}

\* Some SELECT column is an aggregate function
Aggregated ==
  \E i \in 1..Len(query.columns) :
    query.columns[i].type = "function" /\ query.columns[i].name \in Aggregates

\* The positions of the column_refs of the SELECT list
ColumnRefs == {i \in 1..Len(query.columns) : query.columns[i].type = "column_ref"}

\* The message for the column at position n of the SELECT list
NonAggregatedMessage(n) ==
  "In aggregated query without GROUP BY, expression #" \o ToString(n)
  \o " of SELECT list contains nonaggregated column '"
  \o (IF query.columns[n].table = "" THEN ""
      ELSE query.columns[n].table \o ".")
  \o query.columns[n].column \o "'"

\* C7: without GROUP BY, applyGroupBy leaves groupedRows empty when no SELECT
\* column is an aggregate; else throws "In aggregated query without GROUP BY,
\* expression #N ..." for the first column_ref of the SELECT list, N being
\* its position counted from 1; else forms the single group of all the rows,
\* and the query then yields exactly one row before HAVING, also over no rows.
C7_AggregateWithoutGroupBy ==
  [][/\ (pc = "applyGroupBy" /\ Len(query.groupBy) = 0)
          => IF ~Aggregated
             THEN pc' = "applyOrderBy" /\ groupedRows' = <<>> /\ rows' = rows
             ELSE IF ColumnRefs # {}
             THEN /\ pc' = "thrown"
                  /\ thrown'.kind = "ProcessorException"
                  /\ \E n \in ColumnRefs :
                       /\ \A m \in ColumnRefs : n <= m
                       /\ thrown'.message = NonAggregatedMessage(n)
             ELSE /\ pc' = "applyOrderBy"
                  /\ Len(groupedRows') = 1
                  /\ groupedRows'[1].rows = rows
                  /\ rows' = rows
     /\ (/\ pc = "applyHaving"
         /\ Len(query.groupBy) = 0
         /\ Aggregated
         /\ query.having = NoExpr)
          => pc' = "applyLimit" /\ Len(rows') = 1]_vars

\* An aggregate was selected beside a column_ref in second place
C7_Witness ==
  /\ pc = "thrown"
  /\ Len(query.groupBy) = 0
  /\ Aggregated
  /\ query.columns[1].type = "function"
  /\ ColumnRefs = {2}
  /\ thrown.message = NonAggregatedMessage(2)
  /\ Len(tables["users"]) = 0

\* --------------------------------------------------------------- ORDER BY
\* The query is SELECT <c> AS <a> FROM users ORDER BY <a> <order>
AliasOrdered ==
  /\ pc # "idle"
  /\ Len(query.columns) = 1
  /\ query.columns[1].type = "column_ref"
  /\ query.columns[1].alias # ""
  /\ Len(query.orderBy) = 1
  /\ query.orderBy[1].column = query.columns[1].alias

\* SELECT <c> FROM users ORDER BY <c> <order>, for that query
Unaliased ==
  [query EXCEPT
     !.columns = <<Col("", query.columns[1].column)>>,
     !.orderBy = <<OrderBy("", query.columns[1].column, query.orderBy[1].order)>>]

\* The values of the rows under a key, in order
Values(rs, key) == [i \in 1..Len(rs) |-> rs[i][<<key>>]]

\* C8: SELECT c AS a FROM t ORDER BY a and SELECT c FROM t ORDER BY c both
\* succeed and yield the same sequence of values.
C8_AliasIdempotence ==
  (AliasOrdered /\ pc \in {"done", "thrown"})
    => /\ pc = "done"
       /\ processSelect(Unaliased).err = NoError
       /\ Values(rows, query.columns[1].alias)
            = Values(processSelect(Unaliased).rows, query.columns[1].column)

\* The row of users an output row with an id was made from
SourceOf(r) ==
  CHOOSE u \in {tables["users"][i] : i \in 1..Len(tables["users"])} :
    u[<<"id">>] = r[<<"id">>]

\* Row a goes before row b by the ORDER BY terms from term i on
RECURSIVE Before(_, _, _, _)
Before(a, b, orderBy, i) ==
  /\ i <= Len(orderBy)
  /\ LET x == a[<<orderBy[i].column>>]
         y == b[<<orderBy[i].column>>]
     IN  \/ IF orderBy[i].order = "ASC" THEN Less(x, y) ELSE Less(y, x)
         \/ x = y /\ Before(a, b, orderBy, i + 1)

\* C9: with an ORDER BY the output rows are in the order of the comparator,
\* ungrouped and grouped alike; without one they are in insertion order
\* (ungrouped) or in the order the groups were first seen (grouped).
C9_OutputOrder ==
  (/\ pc = "done"
   /\ \A i \in 1..Len(rows) : <<"id">> \in DOMAIN rows[i]
   /\ query.where = NoExpr /\ query.having = NoExpr
   /\ Len(query.from) = 1)
    => IF Len(query.orderBy) > 0
       THEN \A i, j \in 1..Len(rows) :
              i < j => ~Before(SourceOf(rows[j]), SourceOf(rows[i]), query.orderBy, 1)
       ELSE (query.limit = 0 /\ query.offset = 0)
              => Values(rows, "id") = Values(tables["users"], "id")

\* ------------------------------------------------- empty-input projection
\* Some SELECT column is a function, a binary expression, a literal, a CASE
\* or a sub-query
Computed ==
  \E i \in 1..Len(query.columns) :
    query.columns[i].type \notin {"column_ref", "star"}

\* C10: when no rows reach applySelectAndHaving, exactly one empty input row
\* is injected if and only if some SELECT column is a function, a binary
\* expression, a literal, a CASE or a sub-query: SELECT database() yields
\* exactly one row, and a SELECT of column_refs and stars only over no rows
\* yields no rows.
C10_EmptyInputProjection ==
  [][/\ pc = "applySelectAndHaving"
          => /\ pc' = "applyHaving"
             /\ rows' = IF rows = <<>> /\ Computed THEN << <<>> >> ELSE rows
     /\ (pc = "applyHaving" /\ rows = <<>>)
          => ~Computed /\ pc' = "applyLimit" /\ rows' = <<>>
     /\ (/\ pc = "applyHaving"
         /\ Len(query.columns) = 1
         /\ query.columns[1].type = "function"
         /\ query.columns[1].name = "database"
         /\ Len(tables["users"]) = 0)
          => pc' = "applyLimit" /\ Len(rows') = 1 /\ DOMAIN rows'[1] = {<<"database()">>}]_vars

\* SELECT (SELECT ...) FROM users over no rows: the empty input row was
\* injected for the sub-query column
C10_Witness ==
  /\ pc = "applyHaving"
  /\ Len(tables["users"]) = 0
  /\ Len(query.from) = 1
  /\ Len(query.columns) = 1
  /\ query.columns[1].type = "select"
  /\ rows = << <<>> >>

\* ---------------------------------------------------------- clause tags
\* The one clause of a sub-query of SubQueryPool that refers to zz
InnerClause(sub) ==
  IF sub.where # NoExpr THEN "where clause" ELSE "field list"

\* The clause in which an evaluator error can arise while the stage at
\* `stage` runs on a query of ErrorQueries: the clause of the stage, or the
\* clause of the sub-query the stage runs (a sub-query of SubQueryPool
\* evaluates zz only when posts has a row)
ClauseAt(stage, q) ==
  IF stage = "applyFrom"
  THEN IF tables["posts"] # <<>> /\ \E i \in 1..Len(q.from) : q.from[i].type = "select"
       THEN InnerClause(q.from[CHOOSE i \in 1..Len(q.from) : q.from[i].type = "select"].query)
       ELSE "on clause"
  ELSE IF stage = "applyWhere"
  THEN IF q.where.type = "select" THEN InnerClause(q.where.query) ELSE "where clause"
  ELSE IF stage = "applyGroupBy" THEN "group statement"
  ELSE IF stage = "applyOrderBy" THEN "order clause"
  ELSE IF q.columns[1].type = "select" THEN InnerClause(q.columns[1].query)
  ELSE IF q.columns[1] = Literal(NoSuchColumn, "zz") THEN "field list"
  ELSE IF q.having.type = "select" THEN InnerClause(q.having.query)
  ELSE "having clause"

\* C11: an evaluator error raised while a stage runs is thrown as a processor
\* error whose message is the evaluator's message followed by exactly one
\* " in '<clause>'", the clause of the stage that failed; a processor error
\* of a sub-query passes through the outer stage unchanged, so the message
\* names the innermost failing clause only.
C11_ClauseTaggedOnce ==
  [][(query \in ErrorQueries /\ pc' = "thrown")
       => thrown' = ProcessorException(
                      "Unknown column 'zz'" \o " in '" \o ClauseAt(pc, query) \o "'")]_vars

\* A scalar sub-query in WHERE failed in its own field list, and the error
\* left the outer WHERE stage as it was
C11_Witness ==
  /\ pc = "thrown"
  /\ query \in ErrorQueries
  /\ query.where # NoExpr
  /\ query.where.type = "select"
  /\ thrown = ProcessorException("Unknown column 'zz' in 'field list'")

\* -------------------------------------------------------------- storage
\* C12: SELECT never mutates storage: no stage of process(), whether it hands
\* over, returns or throws, changes the rows a table holds, their keys and
\* values, or their order; an ORDER BY sorts, and a LIMIT truncates, an array
\* that is not a table's.
C12_SelectLeavesStorage ==
  [][(pc \in {"applyFrom", "applyWhere", "applyGroupBy", "applyOrderBy",
              "applySelectAndHaving", "applyHaving", "applyLimit"})
       => tables' = tables]_vars

\* process() returned the rows of users in an order that is not the stored
\* one, under an ORDER BY
C12_Witness ==
  /\ pc = "done"
  /\ Len(query.orderBy) > 0
  /\ Len(rows) = Len(tables["users"])
  /\ \E i \in 1..Len(rows) : rows[i][<<"id">>] # tables["users"][i][<<"id">>]

\* process() returned fewer rows than users holds, under a LIMIT
C12_Truncated ==
  /\ pc = "done"
  /\ query.limit # 0
  /\ Len(rows) = query.limit
  /\ Len(tables["users"]) > query.limit

\* ------------------------------------------------- HAVING and aliases
\* The candidates of applySelectAndHaving: every row with no group, or the
\* first row of every group with its group
Candidates ==
  IF Len(groupedRows) = 0
  THEN [i \in 1..Len(rows) |-> [rawRow |-> rows[i], group |-> <<>>]]
  ELSE [g \in 1..Len(groupedRows) |->
          [rawRow |-> IF Len(groupedRows[g].rows) = 0 THEN <<>>
                      ELSE groupedRows[g].rows[1],
           group |-> groupedRows[g].rows]]

\* The positions of the aliased SELECT columns, and of those that give an
\* output row the key k
AliasedColumns ==
  {i \in 1..Len(query.columns) :
     query.columns[i].type # "star" /\ query.columns[i].alias # ""}
OutputKeysAt(i, rawRow) ==
  IF query.columns[i].type = "star"
  THEN DOMAIN evaluateStar(query.columns[i], rawRow)
  ELSE {<<IF query.columns[i].alias # "" THEN query.columns[i].alias
          ELSE query.columns[i].column>>}
Last(positions) == CHOOSE i \in positions : \A j \in positions : j <= i

\* The raw row with a ::alias entry for every aliased SELECT column
AliasScope(e) ==
  [k \in DOMAIN e.rawRow \cup {<<"", query.columns[i].alias>> : i \in AliasedColumns} |->
     IF \E i \in AliasedColumns : k = <<"", query.columns[i].alias>>
     THEN evaluateExpression(
            query.columns[Last({i \in AliasedColumns : k = <<"", query.columns[i].alias>>})],
            e.rawRow, e.group).v
     ELSE e.rawRow[k]]

\* The output row of a candidate: the value of every SELECT column under its
\* alias or column text, the columns of a star under their names
OutputRow(e) ==
  [k \in UNION {OutputKeysAt(i, e.rawRow) : i \in 1..Len(query.columns)} |->
     IF query.columns[Last({i \in 1..Len(query.columns) : k \in OutputKeysAt(i, e.rawRow)})].type
          = "star"
     THEN evaluateStar(
            query.columns[Last({i \in 1..Len(query.columns) : k \in OutputKeysAt(i, e.rawRow)})],
            e.rawRow)[k]
     ELSE evaluateExpression(
            query.columns[Last({i \in 1..Len(query.columns) : k \in OutputKeysAt(i, e.rawRow)})],
            e.rawRow, e.group).v]

\* Every SELECT column, and HAVING in the alias scope, evaluates
Evaluates(e) ==
  /\ \A i \in 1..Len(query.columns) :
       query.columns[i].type # "star"
         => evaluateExpression(query.columns[i], e.rawRow, e.group).err = NoError
  /\ query.having # NoExpr
       => evaluateExpression(query.having, AliasScope(e), e.group).err = NoError

HavingKeeps(e) ==
  \/ query.having = NoExpr
  \/ Truthy(evaluateExpression(query.having, AliasScope(e), e.group).v)

KeptCandidates == SelectSeq(Candidates, LAMBDA e : HavingKeeps(e))

\* C13: without DISTINCT, the output rows are the output rows of the
\* candidates for which HAVING is absent or truthy on the raw row with a
\* ::alias entry for every aliased SELECT column, in the order of the
\* candidates; an output row has no ::alias and no T::c key, its keys are
\* the alias or the column text of the SELECT columns (the column names,
\* for a star).
C13_HavingAliasScope ==
  [][(pc = "applyHaving" /\ ~query.distinct)
       => IF \A i \in 1..Len(Candidates) : Evaluates(Candidates[i])
          THEN /\ pc' = "applyLimit"
               /\ rows' = [i \in 1..Len(KeptCandidates) |-> OutputRow(KeptCandidates[i])]
               /\ \A i \in 1..Len(rows') : \A k \in DOMAIN rows'[i] : Len(k) = 1
          ELSE pc' = "thrown"]_vars

\* HAVING on an alias of the SELECT list kept one row and dropped another
C13_Witness ==
  /\ pc = "applyLimit"
  /\ query.having = Binary(">", ColumnRef("", "i"), NumberLit(1))
  /\ Len(tables["users"]) = 2
  /\ Len(rows) = 1
  /\ <<"i">> \in DOMAIN rows[1]

\* -------------------------------------------------------- table aliases
\* The processor after process() of the query written without the alias
WithTableName(shape) == processSelect(fromAst(AliasAst(shape, "")).query)

\* C14: a query written with a table alias runs as the query written with
\* the table's name and no alias: fromAst builds the same SelectQuery for
\* both (the alias is replaced in SELECT columns, WHERE, ON, GROUP BY and
\* ORDER BY), every reference resolves in the rows of applyFrom, and
\* process() returns the same rows.
C14_AliasAsTableName ==
  [][\A shape \in AliasShapes :
       ast = AliasAst(shape, "u")
         => /\ pc = "fromAst"
                 => /\ pc' = "applyFrom"
                    /\ query' = fromAst(AliasAst(shape, "")).query
            /\ pc' # "thrown"
            /\ pc' = "done"
                 => /\ WithTableName(shape).err = NoError
                    /\ rows' = WithTableName(shape).rows]_vars

\* SELECT u.* FROM users u WHERE u.id > 1 returned one of the two rows
C14_Witness ==
  /\ pc = "done"
  /\ ast = AliasAst("where", "u")
  /\ Len(tables["users"]) = 2
  /\ Len(rows) = 1
  /\ DOMAIN rows[1] = {<<"id">>, <<"name">>}

\* ------------------------------------------------------------------ LIMIT
\* C15: fromAst gives LIMIT a, b and LIMIT b OFFSET a the same pair
\* (limit = b, offset = a), LIMIT b alone (limit = b, offset = 0) and no
\* LIMIT (limit = 0, offset = 0); applyLimit leaves the rows of a query with
\* limit = 0 and offset = 0 as they are.
C15_LimitSyntaxes ==
  [][/\ (pc = "fromAst" /\ ast \in LimitAsts)
          => /\ pc' = "applyFrom"
             /\ ast.limit = NoLimit => query'.limit = 0 /\ query'.offset = 0
             /\ \A b \in 0..MaxLimit :
                  ast.limit = AstLimit(<<b>>, "")
                    => query'.limit = b /\ query'.offset = 0
             /\ \A a \in 0..MaxLimit, b \in 0..MaxLimit :
                  /\ ast.limit = AstLimit(<<a, b>>, ",")
                       => query'.limit = b /\ query'.offset = a
                  /\ ast.limit = AstLimit(<<b, a>>, "offset")
                       => query'.limit = b /\ query'.offset = a
     /\ (pc = "applyLimit" /\ query.limit = 0 /\ query.offset = 0)
          => pc' = "done" /\ rows' = rows]_vars

\* SELECT * FROM users LIMIT 1, 2 returned the second and the third of three
\* rows
C15_Witness ==
  /\ pc = "done"
  /\ ast \in LimitAsts
  /\ ast.limit = AstLimit(<<1, 2>>, ",")
  /\ query.limit = 2
  /\ query.offset = 1
  /\ Len(tables["users"]) = 3
  /\ rows = SubSeq(tables["users"], 2, 3)

\* --------------------------------------------------------- NOT NULL
\* The value process resolves for column c from the expression e a VALUES
\* row supplies is null: NULL, DEFAULT or nothing is given, and the column
\* has no default and no auto-increment
ResolvesToNull(c, e) ==
  e.type \in {"none", "null", "default"} /\ ~c.autoInc /\ c.default = NoExpr

\* process resolves column ci for VALUES row i of the statement: the rows
\* before it were inserted, the row has a value for every listed column, no
\* DEFAULT is given for an unknown column, and the columns before ci took
\* their values
Resolves(i, ci) ==
  /\ \A j \in 1..(i - 1) : LastMessage(j) = ""
  /\ Len(lastQuery.values[i]) = Len(LastColumns)
  /\ \A vi \in 1..Len(LastColumns) :
       lastQuery.values[i][vi].type = "default"
         => LastColumns[vi] \in {getColumns(lastQuery.table)[cj].name :
                                   cj \in 1..Len(getColumns(lastQuery.table))}
  /\ \A cj \in 1..(ci - 1) :
       ColumnMessage(getColumns(lastQuery.table)[cj],
                     Supplied(LastColumns, lastQuery.values[i],
                              getColumns(lastQuery.table)[cj].name), i) = ""

\* C16: no stored row holds null in a column that is not nullable; and when
\* the value process resolves for a non-nullable column of a VALUES row is
\* null (NULL given, or nothing given, with no default and no
\* auto-increment), process throws Field 'X' doesn't have a default value
\* and neither that row nor a later one is inserted.
C16_NotNullIntegrity ==
  /\ \A t \in Tables : \A r \in 1..Len(tables[t]) : \A ci \in 1..Len(getColumns(t)) :
       ~getColumns(t)[ci].nullable
         => /\ <<getColumns(t)[ci].name>> \in DOMAIN tables[t][r]
            /\ tables[t][r][<<getColumns(t)[ci].name>>] # Null
  /\ result.state # "idle"
       => \A i \in 1..Len(lastQuery.values) :
            \A ci \in 1..Len(getColumns(lastQuery.table)) :
              ( /\ Resolves(i, ci)
                /\ ~getColumns(lastQuery.table)[ci].nullable
                /\ ResolvesToNull(getColumns(lastQuery.table)[ci],
                                  Supplied(LastColumns, lastQuery.values[i],
                                           getColumns(lastQuery.table)[ci].name)) )
              => /\ result.state = "thrown"
                 /\ result.err = ProcessorError(
                      "Field '" \o getColumns(lastQuery.table)[ci].name
                      \o "' doesn't have a default value")
                 /\ Kept
                 /\ Added = i - 1

\* INSERT INTO posts VALUES (1, DEFAULT), (NULL, 'a') stored the first row
\* and threw on the second
C16_Witness ==
  /\ result.state = "thrown"
  /\ lastQuery.table = "posts"
  /\ Len(lastQuery.values) = 2
  /\ lastQuery.values[2][1] = NullLit
  /\ result.err = ProcessorError("Field 'user_id' doesn't have a default value")
  /\ Added = 1

\* INSERT INTO posts (body) VALUES ('a') threw: user_id is not given
C16_Omitted ==
  /\ result.state = "thrown"
  /\ lastQuery.columns = <<"body">>
  /\ result.err = ProcessorError("Field 'user_id' doesn't have a default value")

\* ---------------------------------------------------- auto-increment
\* The VALUES rows of the statement that process took up: the rows added,
\* and the row it threw on
Processed ==
  IF result.state = "thrown" THEN 1..(Added + 1) ELSE 1..Added

\* VALUES row i gives a literal that is not NULL for the auto-increment
\* column id
ExplicitId(i) ==
  Supplied(LastColumns, lastQuery.values[i], "id").type \in {"number", "string"}

\* The VALUES rows for which a value of the counter may be drawn
DrawRows ==
  IF hasAutoIncrementColumn(lastQuery.table)
  THEN {i \in Processed : ~ExplicitId(i)}
  ELSE {}

StoredId(i) == tables[lastQuery.table][Len(before.rows) + i][<<"id">>]

\* C17: a statement advances the counter at most once for every VALUES row
\* it takes up, and not for a row that gives a non-null literal for the
\* auto-increment column; the ids assigned by default are above every value
\* the counter had before the statement, failed statements included, and
\* increase from row to row.
C17_AutoIncrementDraws ==
  result.state # "idle"
    => /\ autoInc[lastQuery.table] >= before.cursor
       /\ autoInc[lastQuery.table] - before.cursor <= Cardinality(DrawRows)
       /\ \A i \in DrawRows :
            i <= Added
              => /\ StoredId(i).t = "int"
                 /\ StoredId(i).n > before.cursor
                 /\ StoredId(i).n <= autoInc[lastQuery.table]
                 /\ \A j \in DrawRows : j < i => StoredId(j).n < StoredId(i).n

\* The column list of the statement names the auto-increment column at most
\* once
ListedOnce ==
  Cardinality({vi \in 1..Len(LastColumns) : LastColumns[vi] = "id"}) <= 1

\* The draws of the statements that do not list the auto-increment column
\* twice are as C17 says
DrawsWhenListedOnce ==
  (result.state # "idle" /\ ListedOnce) => C17_AutoIncrementDraws

====
